---- MODULE Spec2Model ----
(***************************************************************************)
(* Replicated-I/O submission/completion engine of                          *)
(* app/spdk_nvme_perf_rep_batch/perf_rep_batch.c: one worker (work_fn),    *)
(* its namespace-worker contexts, the perf_task siblings with their        *)
(* intrusive TAILQ links, the pending-logical-I/O list and the batch gate. *)
(*                                                                         *)
(* Unsigned 64-bit counters (current_queue_depth, io_submitted,            *)
(* io_completed) are kept as the signed representative of their value      *)
(* modulo 2^64: -1 stands for 2^64 - 1.  U64IsZero / U64Le give the C      *)
(* comparisons on that representation.                                     *)
(***************************************************************************)
EXTENDS Integers, Sequences, FiniteSets, TLC

(* ------------------------------ bounds --------------------------------- *)
MaxCtx == 2        \* namespace-worker contexts owned by the worker
MaxRep == 2        \* -n, g_rep_num
MaxQD == 2         \* -q, g_queue_depth
MaxBatch == 2      \* -B, batch_size
MaxIters == 2      \* main-loop iterations before the run time is over
MaxFail == 1       \* faults the devices inject in one run (failed submit_io, error
                   \* completion, disconnect, failed poll)
MaxReap == 1       \* completions one check_io call reaps
MaxOptions == 1    \* optional switches on one command line
MaxWorkers == 2    \* worker threads (cores of the -c mask) sharing the batch gate
MaxSamples == 2    \* latency samples one worker adds
MaxTicks == 2      \* expiries of the 1 s latency-log timer
MaxIps == 3        \* -E, io_num_per_second
MaxClock == 9      \* readings of the clock, in units of 1 / NsPerSec second
NsPerSec == 4      \* the 1000000000 of struct timespec, scaled down
IdModulus == 16    \* the 2^32 of uint32_t io_id, scaled down
MaxQpairs == 3     \* -P, g_nr_io_queues_per_ns
MaxUnused == 1     \* -U, g_nr_unused_io_queues
MaxSubmits == 4    \* nvme_submit_io calls followed on one context
MaxIdQD == 3       \* -q of the runs whose io_ids are followed through the wrap
MaxSnaps == 2      \* snapshots the CSV writer receives
MaxAcc == 2        \* parameters a snapshot's accumulators are drawn with

NULL == 0
TaskIds == 1..(MaxQD * MaxCtx)
CtxIds == 1..MaxCtx
LioIds == 1..MaxQD

\* slot k of the worker's j-th context: the sibling created for logical I/O k
Tid(k, j) == (k - 1) * MaxCtx + j
Lio(t) == ((t - 1) \div MaxCtx) + 1
Primary(k) == Tid(k, 1)

\* ns_size / g_io_size_bytes of the namespace behind the worker's c-th context
NsIos(c) == IF c = 1 THEN 3 ELSE 2

VARIABLES
    cfg,            \* global configuration set by parse_args / main
    task,           \* struct perf_task, by task id
    ctx,            \* struct ns_worker_ctx, by position in worker->ns_ctx
    swap,           \* TAILQ_HEAD swap, local of work_fn
    inflight,       \* per task: submissions accepted by the transport, not yet completed
    pending,        \* perf_task_link list: primaries between head->next and tail
    batch,          \* static uint32_t batch
    submit_batch,   \* static uint32_t submit_batch
    payload,        \* per logical I/O: the DMA buffer behind iovs[0].iov_base
    g_exit,         \* static bool g_exit
    warmup,         \* work_fn local
    all_draining,   \* work_fn local
    unfinished,     \* work_fn local unfinished_ns_ctx
    pc,             \* position of work_fn
    cur,            \* work_fn local ns_ctx (position in worker->ns_ctx)
    iters,          \* completed main-loop iterations
    nfail,          \* faults injected so far
    reaped,         \* completions reaped by the check_io call in progress
    hist,           \* observations of the calls made so far
    mw,             \* several workers sharing the statics of the batch gate
    ll,             \* latency_msg, log_mutex and the threads that use them
    gt,             \* the batch gate with its clock and before_time
    qp,             \* u.nvme of every context: queue pairs and last_qpair
    br,             \* the workers at g_worker_sync_barrier, and main after them
    iw,             \* the io_id of every logical I/O of a worker
    cw              \* the CSV file and the thread that writes posted snapshots to it

vars == <<cfg, task, ctx, swap, inflight, pending, batch, submit_batch, payload,
          g_exit, warmup, all_draining, unfinished, pc, cur, iters, nfail, reaped, hist,
          mw, ll, gt, qp, br, iw, cw>>

\* the state of the threads and devices one worker's work_fn does not touch
sideVars == <<mw, ll, gt, qp, br, iw, cw>>

(* --------------------------- configuration ----------------------------- *)
\* parse_args: -d with -a is rejected, -d below -q is rejected, -q 0 is rejected
ConfigOk(c) ==
    /\ (c.number_ios # 0 => ~c.warmup_time)
    /\ (c.number_ios # 0 => c.number_ios >= c.queue_depth)
    /\ (~c.rate => c.batch_size = 1)

\* -d: absent, or the smallest two values parse_args accepts for the given -q
NumberIosChoices == {0} \cup (1..(MaxQD + 1))
B2N(b) == IF b THEN 1 ELSE 0
\* how many of the optional switches a command line uses (debug is a property
\* of the build, not a switch)
Options(c) ==
    B2N(c.coe) + B2N(c.rate) + B2N(c.number_ios # 0) + B2N(c.warmup_time)
    + B2N(c.main_last) + B2N(c.io_limit # 1)
\* the runs explored: few switches at a time, and queue depth 1 where the worker
\* has more contexts than g_rep_num
ConfigSmall(c) ==
    /\ c.number_ios <= c.queue_depth + 1
    /\ Options(c) <= MaxOptions
    /\ (c.nctx > c.rep_num => c.queue_depth = 1)

\* the workloads (-w, -M) of the runs considered: sequential write
IsRandomChoices == {FALSE}
\* -K: absent, or as large as the larger namespace counted in I/Os
IoLimitChoices == {1, NsIos(1)}
RwPercentageChoices == {0}

\* the command lines parse_args accepts
AllConfigs ==
    { c \in [ nctx : 1..MaxCtx, rep_num : 1..MaxRep, queue_depth : 1..MaxQD,
              coe : BOOLEAN, rate : BOOLEAN, batch_size : 1..MaxBatch,
              number_ios : NumberIosChoices, warmup_time : BOOLEAN,
              main_last : BOOLEAN, debug : BOOLEAN, is_random : IsRandomChoices,
              rw_percentage : RwPercentageChoices, io_limit : IoLimitChoices ] :
          ConfigOk(c) }

Configs == { c \in AllConfigs : ConfigSmall(c) }

\* runs with a submission budget (-d): closed loop, rate-limited, or with
\* --continue-on-error
BudgetConfigs ==
    { c \in AllConfigs :
          /\ c.number_ios # 0 /\ c.number_ios <= c.queue_depth + 1
          /\ ~(c.rate /\ c.coe) /\ ~c.main_last /\ c.io_limit = 1
          /\ c.nctx = c.rep_num }

Ctxs == 1..cfg.nctx

\* entry->size_in_ios = ns_size / g_io_size_bytes / io_limit (register_ns)
SizeInIos(c) == NsIos(c) \div cfg.io_limit

\* get_min_size_in_ios
MinInt(a, b) == IF a < b THEN a ELSE b
RECURSIVE MinSizeUpTo(_)
MinSizeUpTo(n) == IF n = 1 THEN SizeInIos(1) ELSE MinInt(MinSizeUpTo(n - 1), SizeInIos(n))
get_min_size_in_ios == MinSizeUpTo(cfg.nctx)

(* ------------------------- uint64 representation ----------------------- *)
U64IsZero(x) == x = 0
U64Le(x, y) == x >= 0 /\ x <= y

(* ------------------------------ records -------------------------------- *)
\* addresses of the pointer cells a TAILQ tqe_prev / tqh_last can designate
NullSlot == <<"N", 0>>
SlotT(t) == <<"T", t>>      \* &task->link.tqe_next
SlotR(t) == <<"R", t>>      \* &task->rep_tasks.tqh_first
SlotQ(c) == <<"Q", c>>      \* &ns_ctx->queued_tasks.tqh_first
SlotS == <<"S", 0>>         \* &swap.tqh_first

\* calloc'ed perf_task that was never allocated by submit_io_rep
NoTask ==
    [ st |-> "none", main |-> NULL, ctx |-> 0, ns_id |-> 0, io_id |-> 0, off |-> 0,
      rd |-> FALSE,
      next |-> NULL, prev |-> NullSlot, rcn |-> 0, rfirst |-> NULL, rlast |-> NullSlot,
      iovs |-> "none" ]

\* allocate_ns_worker + init_ns_worker_ctx
NewCtx(c) ==
    [ cqd |-> 0, sub |-> 0, comp |-> 0, offset |-> 0, draining |-> FALSE, status |-> 0,
      qfirst |-> NULL, qlast |-> SlotQ(c) ]

NewPayload == [ frees |-> 0 ]

NewHist ==
    [ drainSubmit |-> FALSE,     \* submit_io was called on a draining context
      busyDecision |-> FALSE,    \* re-emit / release while a sibling was outstanding
      offMismatch |-> FALSE,     \* submit_io got an offset other than task->offset_in_ios
      offOutside |-> FALSE,      \* submit_io got an offset at or beyond entry->size_in_ios
      copyFree |-> FALSE,        \* payload freed outside rep_task_release
      busyFree |-> FALSE,        \* payload freed while an aliasing sibling was outstanding
      orderBroken |-> FALSE,     \* an emission did not call submit_io once per sibling in list order
      seqBroken |-> FALSE,       \* a sequential emission left the order 0, 1, ..., m-1, 0, ...
      nextOff |-> 0,             \* (emissions so far) modulo get_min_size_in_ios
      removed |-> [c \in CtxIds |-> FALSE], \* a completion reported the namespace removed
      errored |-> [c \in CtxIds |-> FALSE], \* a completion reported an error, no continue_on_error
      removedEmit |-> FALSE,     \* re-emit / push decided after a namespace was removed
      unevenDecision |-> FALSE,  \* re-emit / release with a sibling not completed exactly once
      linkAfterFree |-> FALSE,   \* rep_task_release read task->link of a sibling it had freed
      tail |-> 0,                \* perf_task_link_tail: 0 the sentinel head, i the i-th node, -1 an unlinked node
      waiting |-> << >>,         \* primaries pushed and not yet popped, in the order of the pushes
      pushedTwice |-> FALSE,     \* a primary was pushed while it was waiting
      outOfOrder |-> FALSE,      \* a pop returned another primary than the one pushed first
      tailOff |-> FALSE,         \* after a push or pop the tail was not the last node
      cpl |-> [t \in TaskIds |-> 0],     \* task_complete calls per sibling since the last decision
      shadow |-> [k \in LioIds |-> 0],   \* completions counted since the last decision
      resetFlagged |-> FALSE,    \* the warm-up reset met a draining context with status 1
      resetDepth |-> [c \in CtxIds |-> 0] ] \* current_queue_depth at the warm-up reset

(* ----------------- the state a handler reads and writes ---------------- *)
\* The handlers below are functions on a record S holding the program state
\* plus what one handler run accumulates: att (submit_io calls made by this
\* handler), em (submit_single_io_rep calls), retried (submit_single_io was
\* called), walk (the siblings the running submit_single_io_rep handed to
\* submit_io), ub (memory of a freed perf_task was read or written), fault
\* (NULL was dereferenced), abort (an assert() failed in a debug build),
\* hang (a TAILQ_FOREACH walked a cyclic list).
Bundle ==
    [ task |-> task, ctx |-> ctx, swap |-> swap, inflight |-> inflight,
      pending |-> pending, batch |-> batch, submit_batch |-> submit_batch,
      payload |-> payload, nfail |-> nfail, hist |-> hist,
      att |-> 0, em |-> 0, retried |-> FALSE, walk |-> << >>,
      ub |-> FALSE, fault |-> FALSE, abort |-> FALSE, hang |-> FALSE ]

\* a walk longer than this has met the same perf_task twice
WalkFuel == 2 * MaxQD * MaxCtx + 2

\* any access to a perf_task that free() already returned
Touch(S, t) == IF S.task[t].st = "freed" THEN [S EXCEPT !.ub = TRUE] ELSE S

Stopped(S) == S.fault \/ S.abort \/ S.hang

(* ------------------------------ TAILQ ---------------------------------- *)
\* *a
Deref(S, a) ==
    CASE a[1] = "T" -> S.task[a[2]].next
      [] a[1] = "R" -> S.task[a[2]].rfirst
      [] a[1] = "Q" -> S.ctx[a[2]].qfirst
      [] a[1] = "S" -> S.swap.first
      [] OTHER -> NULL

\* *a = v
Store(S, a, v) ==
    CASE a[1] = "T" -> [Touch(S, a[2]) EXCEPT !.task[a[2]].next = v]
      [] a[1] = "R" -> [Touch(S, a[2]) EXCEPT !.task[a[2]].rfirst = v]
      [] a[1] = "Q" -> [S EXCEPT !.ctx[a[2]].qfirst = v]
      [] a[1] = "S" -> [S EXCEPT !.swap.first = v]
      [] OTHER -> [S EXCEPT !.fault = TRUE]

\* head->tqh_last, the head being named by the address of its tqh_first
GetLast(S, h) ==
    CASE h[1] = "R" -> S.task[h[2]].rlast
      [] h[1] = "Q" -> S.ctx[h[2]].qlast
      [] OTHER -> S.swap.last

SetLast(S, h, a) ==
    CASE h[1] = "R" -> [S EXCEPT !.task[h[2]].rlast = a]
      [] h[1] = "Q" -> [S EXCEPT !.ctx[h[2]].qlast = a]
      [] OTHER -> [S EXCEPT !.swap.last = a]

\* TAILQ_INSERT_TAIL(head, elm, link)
TailqInsertTail(S, h, t) ==
    LET S1 == [Touch(S, t) EXCEPT !.task[t].next = NULL, !.task[t].prev = GetLast(S, h)]
        S2 == Store(S1, GetLast(S1, h), t)
    IN  SetLast(S2, h, SlotT(t))

\* TAILQ_REMOVE(head, elm, link)
TailqRemove(S, h, t) ==
    LET n == S.task[t].next
        p == S.task[t].prev
        S1 == IF n # NULL THEN [Touch(S, n) EXCEPT !.task[n].prev = p]
                          ELSE SetLast(S, h, p)
    IN  Store(Touch(S1, t), p, n)

\* TAILQ_INIT(&swap); TAILQ_SWAP(&swap, &ns_ctx->queued_tasks, perf_task, link)
TailqSwapIntoSwap(S, c) ==
    LET qf == S.ctx[c].qfirst
        ql == S.ctx[c].qlast
        \* swap was just initialised: first = NULL, last = &swap.first
        S1 == [S EXCEPT !.swap = [first |-> qf, last |-> ql],
                        !.ctx[c].qfirst = NULL, !.ctx[c].qlast = SlotS]
        S2 == IF qf # NULL THEN [Touch(S1, qf) EXCEPT !.task[qf].prev = SlotS]
                           ELSE [S1 EXCEPT !.swap.last = SlotS]
    IN  \* the queue head received the empty list
        [S2 EXCEPT !.ctx[c].qlast = SlotQ(c)]

(* ------------------------ environment choices -------------------------- *)
\* What one handler run cannot decide itself: which of its submit_io calls
\* return non-zero (by call number), what rand_r yields for each
\* submit_single_io_rep call (by call number), and the value found in the
\* uninitialised local offset_in_ios of submit_single_io.
MaxEmit == IF MaxQD > MaxBatch THEN MaxQD ELSE MaxBatch
Offsets == 0..(NsIos(1) - 1)
FailSets(n, used) == { f \in SUBSET (1..n) : Cardinality(f) <= MaxFail - used }
RdChoices == IF cfg.rw_percentage = 100 THEN {TRUE}
             ELSE IF cfg.rw_percentage = 0 THEN {FALSE} ELSE BOOLEAN
RndChoices == IF cfg.is_random THEN Offsets ELSE {0}
JunkChoices == {0, NsIos(1)}
Oracles(nEmit, nCalls, used, junks) ==
    [ fail : FailSets(nCalls, used), rd : [1..nEmit -> RdChoices],
      rnd : [1..nEmit -> RndChoices], junk : junks ]
\* every submit_io succeeds; used to count the calls a handler run can make
Calm == [ fail |-> {}, rd |-> [e \in 1..MaxEmit |-> FALSE],
          rnd |-> [e \in 1..MaxEmit |-> 0], junk |-> 0 ]
\* the choices that matter to a handler run whose calm run is D
OraclesFor(D) ==
    Oracles(D.em, D.att, D.nfail, IF D.retried THEN JunkChoices ELSE {0})

SiblingsOf(k) == { t \in TaskIds : Lio(t) = k }
Outstanding(S, k) == \E t \in SiblingsOf(k) : S.inflight[t] > 0

(* ------------------------- submission of a sibling --------------------- *)
\* entry->fn_table->submit_io(task, ns_ctx, entry, off) and the handling of
\* its return code, shared by submit_single_io_rep (1737-1763) and
\* submit_single_io (1669-1688)
SubmitFailed(S, t, c) ==
    IF cfg.coe
    THEN TailqInsertTail(S, SlotQ(c), t)
    ELSE \* spdk_dma_free(task->iovs[0].iov_base); free(task->iovs);
         \* spdk_dma_free(task->md_iov.iov_base); status = 1; free(task)
         LET S1 == IF S.task[t].iovs = "freed" THEN [S EXCEPT !.ub = TRUE] ELSE S
         IN  [S1 EXCEPT !.payload[Lio(t)].frees = @ + 1,
                        !.hist.copyFree = TRUE,
                        !.hist.busyFree = @ \/ Outstanding(S, Lio(t)),
                        !.task[t].iovs = "freed",
                        !.task[t].st = "freed",
                        !.ctx[c].status = 1]

\* a submit path that forgets current_queue_depth++
SubmitSucceededNoDepth(S, t, c) ==
    [S EXCEPT !.inflight[t] = @ + 1, !.ctx[c].sub = @ + 1]

SubmitSucceeded(S, t, c) ==
    [S EXCEPT !.inflight[t] = @ + 1, !.ctx[c].cqd = @ + 1, !.ctx[c].sub = @ + 1]

NumberIosCheck(S, c) ==
    IF cfg.number_ios # 0 /\ S.ctx[c].sub >= cfg.number_ios
    THEN [S EXCEPT !.ctx[c].draining = TRUE] ELSE S

SubmitIo(S, t, off, O) ==
    LET c == S.task[t].ctx
        a == S.att + 1
        S0 == [Touch(S, t) EXCEPT !.att = a,
                  !.hist.drainSubmit = @ \/ S.ctx[c].draining,
                  !.hist.offMismatch = @ \/ (off # S.task[t].off),
                  !.hist.offOutside = @ \/ (off >= SizeInIos(c))]
        S1 == IF a \in O.fail
              THEN SubmitFailed([S0 EXCEPT !.nfail = @ + 1], t, c)
              ELSE SubmitSucceeded(S0, t, c)
    IN  NumberIosCheck(S1, c)

\* submit_single_io: the retry of a queued sibling
submit_single_io(S, t, O) == SubmitIo([S EXCEPT !.retried = TRUE], t, O.junk, O)

\* TAILQ_FOREACH body and step of submit_single_io_rep
RECURSIVE RepSubmitLoop(_, _, _, _, _, _)
RepSubmitLoop(S, t, off, rd, O, fuel) ==
    IF t = NULL \/ Stopped(S) THEN S
    ELSE IF fuel = 0 THEN [S EXCEPT !.hang = TRUE]
    ELSE LET S0 == [Touch(S, t) EXCEPT !.task[t].off = off, !.task[t].rd = rd]
             S1 == SubmitIo([S0 EXCEPT !.walk = Append(@, t)], t, off, O)
             \* task = TAILQ_NEXT(task, link), read after a possible free(task)
             S2 == Touch(S1, t)
         IN  RepSubmitLoop(S2, S2.task[t].next, off, rd, O, fuel - 1)

\* the sibling list submit_io_rep builds for logical I/O k (2004-2018)
SiblingOrder(k) ==
    IF cfg.main_last
    THEN [i \in 1..cfg.nctx |-> IF i = cfg.nctx THEN Primary(k) ELSE Tid(k, i + 1)]
    ELSE [i \in 1..cfg.nctx |-> Tid(k, i)]

\* main_ns_ctx->offset_in_ios after offset_in_ios++ and the wrap (1717-1719)
NextOffset(seq) == IF seq + 1 = get_min_size_in_ios THEN 0 ELSE seq + 1

\* submit_single_io_rep(main_task)
submit_single_io_rep(S, m, O) ==
    LET mc == S.task[m].ctx
        S0 == [Touch(S, m) EXCEPT
                  !.em = @ + 1, !.walk = << >>,
                  !.hist.busyDecision = @ \/ Outstanding(S, Lio(m))]
    IN  IF cfg.debug /\ S0.ctx[mc].draining
        THEN [S0 EXCEPT !.abort = TRUE]       \* assert(!main_ns_ctx->is_draining)
        ELSE
        LET seq == S0.ctx[mc].offset
            off == IF cfg.is_random THEN O.rnd[S0.em] % SizeInIos(mc) ELSE seq
            S1 == IF cfg.is_random THEN S0
                  ELSE [S0 EXCEPT !.ctx[mc].offset = NextOffset(seq),
                           !.hist.seqBroken = @ \/ (off # S0.hist.nextOff),
                           !.hist.nextOff = IF get_min_size_in_ios = 0 THEN 0
                                            ELSE (@ + 1) % get_min_size_in_ios]
            rd == IF cfg.rw_percentage = 100 THEN TRUE
                  ELSE IF cfg.rw_percentage = 0 THEN FALSE ELSE O.rd[S0.em]
            S2 == RepSubmitLoop(S1, S1.task[m].rfirst, off, rd, O, WalkFuel)
        IN  [S2 EXCEPT !.hist.orderBroken = @ \/ (S2.walk # SiblingOrder(Lio(m)))]

(* ------------------------------ release -------------------------------- *)
RECURSIVE ReleaseLoop(_, _, _, _)
ReleaseLoop(S, m, t, fuel) ==
    IF t = NULL \/ Stopped(S) THEN S
    ELSE IF fuel = 0 THEN [S EXCEPT !.hang = TRUE]
    ELSE LET S0 == IF S.task[t].iovs = "freed" THEN [S EXCEPT !.ub = TRUE] ELSE S
             S1 == [Touch(S0, t) EXCEPT !.task[t].iovs = "freed"]
             S2 == IF t # m THEN [S1 EXCEPT !.task[t].st = "freed"] ELSE S1
             \* TAILQ_FOREACH steps through task->link after free(task)
             S3 == [Touch(S2, t) EXCEPT
                       !.hist.linkAfterFree = @ \/ (S2.task[t].st = "freed")]
         IN  ReleaseLoop(S3, m, S3.task[t].next, fuel - 1)

\* rep_task_release(main_task)
rep_task_release(S, m) ==
    LET S0 == [Touch(S, m) EXCEPT
                  !.payload[Lio(m)].frees = @ + 1,
                  !.hist.busyFree = @ \/ Outstanding(S, Lio(m)),
                  !.hist.busyDecision = @ \/ Outstanding(S, Lio(m))]
        S1 == ReleaseLoop(S0, m, S0.task[m].rfirst, WalkFuel)
    IN  [Touch(S1, m) EXCEPT !.task[m].st = "freed"]

(* ------------------------- pending-list nodes -------------------------- *)
SeqWithout(q, i) == [j \in 1..(Len(q) - 1) |-> IF j < i THEN q[j] ELSE q[j + 1]]
FirstAt(q, m) == CHOOSE i \in 1..Len(q) : q[i] = m /\ \A j \in 1..(i - 1) : q[j] # m

\* new = malloc; new->task = m; tail->next = new; new->next = NULL; tail = new
PushLink(S, m) ==
    LET tp == S.hist.tail
        chain == IF tp = -1 THEN S.pending
                 ELSE Append(SubSeq(S.pending, 1, tp), m)
        ntail == IF tp = -1 THEN -1 ELSE tp + 1
        w == S.hist.waiting
    IN  [S EXCEPT !.pending = chain,
                  !.hist.tail = ntail,
                  !.hist.waiting = Append(w, m),
                  !.hist.pushedTwice = @ \/ (\E i \in 1..Len(w) : w[i] = m),
                  !.hist.tailOff = @ \/ ntail # Len(chain)]

\* temp = head->next (not NULL); head->next = temp->next;
\* if (temp->next == NULL) tail = head
PopLink(S) ==
    LET m == Head(S.pending)
        tp == S.hist.tail
        ntail == IF Len(S.pending) = 1 THEN 0
                 ELSE IF tp >= 2 THEN tp - 1 ELSE IF tp = 1 THEN -1 ELSE tp
        w == S.hist.waiting
        inW == \E i \in 1..Len(w) : w[i] = m
    IN  [S EXCEPT !.pending = Tail(@),
                  !.hist.tail = ntail,
                  !.hist.waiting = IF inW THEN SeqWithout(w, FirstAt(w, m)) ELSE w,
                  !.hist.outOfOrder = @ \/ w = << >> \/ Head(w) # m,
                  !.hist.tailOff = @ \/ ntail # Len(S.pending) - 1]

(* ----------------------------- completion ------------------------------ *)
\* uint32_t io_id = main_task->io_id + g_queue_depth; 0 is replaced by 1
StampIoId(id, queue_depth) ==
    LET io_id == (id + queue_depth) % IdModulus
    IN  IF io_id = 0 THEN 1 ELSE io_id
NextIoId(id) == StampIoId(id, cfg.queue_depth)

\* the TAILQ_FOREACH of task_complete (1862-1868): release on the first
\* sibling whose context is draining, else stamp the new io_id
RECURSIVE DecisionWalk(_, _, _, _, _)
DecisionWalk(S, m, t, id, fuel) ==
    IF t = NULL \/ Stopped(S) THEN [s |-> S, released |-> FALSE]
    ELSE IF fuel = 0 THEN [s |-> [S EXCEPT !.hang = TRUE], released |-> FALSE]
    ELSE LET S0 == Touch(S, t)
         IN  IF S0.ctx[S0.task[t].ctx].draining
             THEN [s |-> rep_task_release(S0, m), released |-> TRUE]
             ELSE DecisionWalk([S0 EXCEPT !.task[t].io_id = id], m,
                               S0.task[t].next, id, fuel - 1)

\* the decision went past the draining test (1862-1868)
NoteReissue(S) ==
    [S EXCEPT !.hist.removedEmit = @ \/ \E c \in Ctxs : S.hist.removed[c]]

\* at a decision, some sibling of logical I/O k was not completed exactly once
Uneven(S, k) == \E j \in 1..cfg.nctx : S.hist.cpl[Tid(k, j)] # 1

\* a decision that forgets main_task->rep_completed_num = 0
DecideKeepCount(S, m, O) ==
    LET S0 == [S EXCEPT !.hist.shadow[Lio(m)] = @ - cfg.rep_num,
                        !.hist.unevenDecision = @ \/ Uneven(S, Lio(m)),
                        !.hist.cpl = [t \in TaskIds |->
                                         IF Lio(t) = Lio(m) THEN 0 ELSE @[t]]]
        w == DecisionWalk(S0, m, S0.task[m].rfirst, NextIoId(S0.task[m].io_id), WalkFuel)
        r == NoteReissue(w.s)
    IN  IF w.released \/ Stopped(w.s) THEN w.s
        ELSE IF ~cfg.rate THEN submit_single_io_rep(r, m, O)
        ELSE [PushLink(r, m) EXCEPT !.batch = @ + 1]

\* the else branch of task_complete (1849-1879)
Decide(S, m, O) ==
    LET S0 == [S EXCEPT !.task[m].rcn = 0,
                        !.hist.shadow[Lio(m)] = @ - cfg.rep_num,
                        !.hist.unevenDecision = @ \/ Uneven(S, Lio(m)),
                        !.hist.cpl = [t \in TaskIds |->
                                         IF Lio(t) = Lio(m) THEN 0 ELSE @[t]]]
        w == DecisionWalk(S0, m, S0.task[m].rfirst, NextIoId(S0.task[m].io_id), WalkFuel)
        r == NoteReissue(w.s)
    IN  IF w.released \/ Stopped(w.s) THEN w.s
        ELSE IF ~cfg.rate THEN submit_single_io_rep(r, m, O)
        ELSE [PushLink(r, m) EXCEPT !.batch = @ + 1]

\* task_complete(task)
task_complete(S, t, O) ==
    LET c == S.task[t].ctx
        m == S.task[t].main
        S0 == [Touch(S, t) EXCEPT !.ctx[c].cqd = @ - 1, !.ctx[c].comp = @ + 1,
                                  !.hist.cpl[t] = @ + 1]
        S1 == [Touch(S0, m) EXCEPT !.task[m].rcn = @ + 1,
                                   !.hist.shadow[Lio(m)] = @ + 1]
    IN  IF S1.task[m].rcn < cfg.rep_num THEN S1 ELSE Decide(S1, m, O)

\* io_complete(ctx, cpl); kind is the completion status the transport reports
CplKinds == {"ok", "error", "invalid_ns"}

\* an io_complete that records the failure but leaves is_draining alone
io_complete_status_only(S, t, kind, O) ==
    LET c == S.task[t].ctx
        S0 == IF kind = "ok" \/ cfg.coe THEN S
              ELSE [Touch(S, t) EXCEPT
                       !.hist.removed[c] = @ \/ (kind = "invalid_ns"),
                       !.hist.errored[c] = TRUE,
                       !.ctx[c].status = 1]
    IN  task_complete(S0, t, O)

\* an io_complete that records the failure on every context of the worker
io_complete_marks_all(S, t, kind, O) ==
    LET c == S.task[t].ctx
        S0 == IF kind = "ok" \/ cfg.coe THEN S
              ELSE [Touch(S, t) EXCEPT
                       !.hist.removed[c] = @ \/ (kind = "invalid_ns"),
                       !.hist.errored[c] = TRUE,
                       !.ctx = [d \in CtxIds |->
                                   IF d \in Ctxs
                                   THEN [@[d] EXCEPT
                                            !.draining = @ \/ (d = c /\ kind = "invalid_ns"),
                                            !.status = 1]
                                   ELSE @[d]]]
    IN  task_complete(S0, t, O)

io_complete(S, t, kind, O) ==
    LET c == S.task[t].ctx
        S0 == IF kind = "ok" \/ cfg.coe THEN S
              ELSE [Touch(S, t) EXCEPT
                       !.hist.removed[c] = @ \/ (kind = "invalid_ns"),
                       !.hist.errored[c] = TRUE,
                       !.ctx[c].draining = @ \/ (kind = "invalid_ns"),
                       !.ctx[c].status = 1]
    IN  task_complete(S0, t, O)

(* --------------------------- initial emission -------------------------- *)
\* allocate_main_task(ns_ctx, queue_depth, io_id, ns_id)
allocate_main_task(S, c, id, ns, t) ==
    LET S0 == [S EXCEPT !.task[t] =
                  [ st |-> "live", main |-> t, ctx |-> c, ns_id |-> ns, io_id |-> id,
                    off |-> 0, rd |-> FALSE, next |-> NULL, prev |-> NullSlot, rcn |-> 0,
                    rfirst |-> NULL, rlast |-> SlotR(t), iovs |-> "alloc" ]]
    IN  TailqInsertTail(S0, SlotR(t), t)

\* copy_task(main_task, ns_ctx, ns_id)
copy_task(S, m, c, ns, t) ==
    LET S0 == [S EXCEPT !.task[t] =
                  [ NoTask EXCEPT !.st = "live", !.main = m, !.ctx = c, !.ns_id = ns,
                                  !.io_id = S.task[m].io_id, !.iovs = "alloc" ]]
    IN  TailqInsertTail(S0, SlotR(m), t)

\* the TAILQ_FOREACH over worker->ns_ctx of submit_io_rep (2004-2015); the
\* j-th context is visited with ns_id = j - 1 (2003, 2014)
RECURSIVE BuildSiblings(_, _, _)
BuildSiblings(S, k, j) ==
    IF j > cfg.nctx THEN S
    ELSE IF j = 1
         THEN LET S0 == allocate_main_task(S, 1, k, 0, Primary(k))
                  S1 == IF cfg.main_last
                        THEN TailqRemove(S0, SlotR(Primary(k)), Primary(k)) ELSE S0
              IN  BuildSiblings(S1, k, 2)
         ELSE BuildSiblings(copy_task(S, Primary(k), j, j - 1, Tid(k, j)), k, j + 1)

\* submit_io_rep(worker, queue_depth): logical I/Os k..queue_depth
RECURSIVE EmitFrom(_, _, _)
EmitFrom(S, k, O) ==
    IF k > cfg.queue_depth \/ Stopped(S) THEN S
    ELSE LET m == Primary(k)
             S0 == BuildSiblings(S, k, 1)
             S1 == IF cfg.main_last THEN TailqInsertTail(S0, SlotR(m), m) ELSE S0
             S2 == IF ~cfg.rate THEN submit_single_io_rep(S1, m, O)
                   ELSE PushLink(S1, m)
         IN  EmitFrom(S2, k + 1, O)

submit_io_rep(S, O) == EmitFrom(S, 1, O)

(* ------------------------- queued siblings ----------------------------- *)
\* while (!TAILQ_EMPTY(&swap)) of work_fn (2168-2177)
RECURSIVE RetryLoop(_, _, _, _)
RetryLoop(S, c, O, fuel) ==
    IF S.swap.first = NULL \/ Stopped(S) THEN S
    ELSE IF fuel = 0 THEN [S EXCEPT !.hang = TRUE]
    ELSE LET t == S.swap.first
             S0 == TailqRemove(S, SlotS, t)
             S1 == IF S0.ctx[c].draining
                   THEN TailqInsertTail(S0, SlotQ(c), t)
                   ELSE submit_single_io(S0, t, O)
         IN  RetryLoop(S1, c, O, fuel - 1)

\* work_fn 2164-2178 for one context
RetryQueuedTasks(S, c, O) ==
    IF cfg.coe /\ ~S.ctx[c].draining
    THEN RetryLoop(TailqSwapIntoSwap(S, c), c, O, WalkFuel)
    ELSE S

\* TAILQ_FOREACH_SAFE of cleanup_ns_worker_ctx (2044-2047)
RECURSIVE CleanupLoop(_, _, _, _, _)
CleanupLoop(S, c, t, O, fuel) ==
    IF t = NULL \/ Stopped(S) THEN S
    ELSE IF fuel = 0 THEN [S EXCEPT !.hang = TRUE]
    ELSE LET S0 == Touch(S, t)
             nxt == S0.task[t].next
             S1 == TailqRemove(S0, SlotQ(c), t)
             S2 == task_complete(S1, t, O)
         IN  CleanupLoop(S2, c, nxt, O, fuel - 1)

cleanup_ns_worker_ctx(S, c, O) == CleanupLoop(S, c, S.ctx[c].qfirst, O, WalkFuel)

(* ------------------------------ batch gate ----------------------------- *)
\* while (submit_batch < batch_size) of work_fn (2196-2206)
RECURSIVE GateLoop(_, _)
GateLoop(S, O) ==
    IF S.submit_batch >= cfg.batch_size \/ Stopped(S) THEN S
    ELSE IF S.pending = << >>
         THEN [S EXCEPT !.fault = TRUE]     \* temp_perf_task_link->task with temp NULL
         ELSE LET m == Head(S.pending)
                  S0 == PopLink(S)
                  S1 == submit_single_io_rep(S0, m, O)
              IN  GateLoop([S1 EXCEPT !.submit_batch = @ + 1], O)

\* work_fn 2195-2214
BatchGate(S, O) ==
    IF ~cfg.rate THEN S
    ELSE LET S1 == GateLoop(S, O)
         IN  IF ~Stopped(S1) /\ S1.batch >= cfg.batch_size
             THEN [S1 EXCEPT !.batch = 0, !.submit_batch = 0]
             ELSE S1

(* ----------------- state of the other threads, before they run --------- *)
Workers == 1..MaxWorkers
\* main 3978-3980 and the statics 229-230, 331-332 as work_fn of every worker
\* finds them; out and cqd are per worker: its context's outstanding logical
\* I/Os and current_queue_depth
NewMw ==
    [ wpc |-> [w \in Workers |-> "start"],
      pend |-> << >>,                      \* perf_task_link list of <<owner, k>>
      batch |-> 0, submit_batch |-> 0,
      out |-> [w \in Workers |-> {}],
      cqd |-> [w \in Workers |-> 0],
      draining |-> [w \in Workers |-> FALSE],
      witers |-> [w \in Workers |-> 0],
      crashed |-> FALSE,
      foreign |-> FALSE ]                  \* a worker popped a primary of another worker

\* the two accumulators perf_rep_batch.c adds to, per row of latency_msg
Stages == {"task_queue", "task_complete"}
Rows == 0..(MaxCtx - 1)
NoSamples == [r \in Rows |-> [g \in Stages |-> 0]]
\* init_log_fn: pthread_mutex_init, cleanup_log, timer armed
NewLl ==
    [ mutex |-> "free",
      acc |-> NoSamples,                   \* io_num of latency_msg.latency_log_namespaces
      upc |-> [w \in Workers |-> "idle"],  \* position of a worker inside an update
      sel |-> [w \in Workers |-> <<0, "task_queue">>],
      tmp |-> [w \in Workers |-> 0],       \* io_num as loaded by io_num++
      nupd |-> [w \in Workers |-> 0],
      spc |-> "idle",                      \* position of latency_log_1s
      ticks |-> 0,
      temp |-> NoSamples,                  \* the buffer copy_latency_ns_log fills
      sent |-> NoSamples,                  \* io_num summed over the snapshots sent
      nsnap |-> 0,
      added |-> NoSamples ]                \* samples added by the workers

\* the statics of the batch gate (329-333) before work_fn runs; pend and out
\* count the primaries on the pending FIFO and the logical I/Os in flight
NewGt ==
    [ gpc |-> "start",
      ips |-> 1,                            \* io_num_per_second
      now |-> [sec |-> 0, nsec |-> 0],      \* what clock_gettime returns
      before_time |-> [sec |-> 0, nsec |-> 0],
      batch |-> 0, submit_batch |-> 0,
      pend |-> 0, out |-> 0,
      draining |-> FALSE,
      sub |-> 0,                            \* stats.io_submitted of the context
      subs |-> 0,                           \* logical I/Os submitted since the counters were reset
      cnt |-> 0,                            \* completions counted since the counters were reset
      resets |-> 0 ]                        \* waits that have ended

\* u.nvme of the contexts as calloc leaves them (3614), before parse_args
NewQp ==
    [ qpc |-> "parse",
      per_ns |-> 1, unused |-> 0,           \* g_nr_io_queues_per_ns, g_nr_unused_io_queues
      num_active_qpairs |-> [c \in CtxIds |-> 0],
      num_all_qpairs |-> [c \in CtxIds |-> 0],
      last_qpair |-> [c \in CtxIds |-> 0],
      inited |-> [c \in CtxIds |-> FALSE],
      qp_num |-> [c \in CtxIds |-> -1],     \* index the last submission used
      carried |-> [c \in CtxIds |-> {}],    \* indices that carried I/O
      nsub |-> [c \in CtxIds |-> 0] ]

\* main before pthread_barrier_init and the launch of the workers
NewBr ==
    [ n |-> 0,                              \* g_num_workers, the count of the barrier
      wpc |-> [w \in Workers |-> "idle"],
      k |-> [w \in Workers |-> 1],          \* context init_ns_worker_ctx is called on next
      bad |-> [w \in Workers |-> 0],        \* context whose init failed, 0 if none
      arrivals |-> [w \in Workers |-> 0],   \* pthread_barrier_wait calls of the worker
      waiting |-> 0,                        \* threads blocked in the barrier
      status |-> [w \in Workers |-> [c \in CtxIds |-> 0]],
      submitted |-> [w \in Workers |-> FALSE],
      ret |-> [w \in Workers |-> -1],       \* value work_fn returned
      mpc |-> "run",                        \* main: position after the workers
      rc |-> 0,                             \* main's rc
      code |-> -1 ]                         \* exit status of the process

\* the logical I/Os of a worker before parse_args and submit_io_rep
NewIw ==
    [ ipc |-> "parse",
      queue_depth |-> 0,                    \* g_queue_depth
      io_id |-> [k \in 1..MaxIdQD |-> 0],   \* main_task->io_id of logical I/O k
      live |-> [k \in 1..MaxIdQD |-> FALSE] ]

\* the CSV writer before the first message: if_open = false, num = 0
NewCw ==
    [ cpc |-> "init",
      namespace_num |-> 0,
      if_open |-> FALSE,
      num |-> 0,                            \* static int num of write_log_tasks_to_file
      msg |-> << >>,                        \* the snapshot msgrcv returned, one record per namespace
      file |-> << >>,                       \* the lines of HOST_LOG_FILE_PATH
      snaps |-> << >> ]                     \* the snapshots written so far

(* ------------------------------- actions ------------------------------- *)
\* the state work_fn starts in, for a command line of the set C
InitWith(C) ==
    /\ mw = NewMw
    /\ ll = NewLl
    /\ gt = NewGt
    /\ qp = NewQp
    /\ br = NewBr
    /\ iw = NewIw
    /\ cw = NewCw
    /\ cfg \in C
    /\ task = [t \in TaskIds |-> NoTask]
    /\ ctx = [c \in CtxIds |-> NewCtx(c)]
    /\ swap = [first |-> NULL, last |-> SlotS]
    /\ inflight = [t \in TaskIds |-> 0]
    /\ pending = << >>
    /\ batch = 0
    /\ submit_batch = 0
    /\ payload = [k \in LioIds |-> NewPayload]
    /\ g_exit = FALSE
    /\ warmup = FALSE
    /\ all_draining = FALSE
    /\ unfinished = 0
    /\ pc = "start"
    /\ cur = 1
    /\ iters = 0
    /\ nfail = 0
    /\ reaped = 0
    /\ hist = NewHist

Init == InitWith(Configs)

Outcome(S) ==
    IF S.fault THEN "crashed" ELSE IF S.abort THEN "aborted"
    ELSE IF S.hang THEN "hung" ELSE "ok"

SetProg(S) ==
    /\ task' = S.task
    /\ ctx' = S.ctx
    /\ swap' = S.swap
    /\ inflight' = S.inflight
    /\ pending' = S.pending
    /\ batch' = S.batch
    /\ submit_batch' = S.submit_batch
    /\ payload' = S.payload
    /\ nfail' = S.nfail
    /\ hist' = S.hist

\* The handler ran to its end and work_fn goes on at npc / ncur; or the
\* process stopped inside it: NULL dereference, failed assert, endless
\* TAILQ_FOREACH, or a fault on the freed memory the handler touched.
Finish(S, npc, ncur, nall, nunf) ==
    \/ /\ Outcome(S) = "ok"
       /\ SetProg(S)
       /\ pc' = npc /\ cur' = ncur /\ all_draining' = nall /\ unfinished' = nunf
    \/ /\ Outcome(S) # "ok" \/ S.ub
       /\ pc' = (IF Outcome(S) # "ok" THEN Outcome(S) ELSE "crashed")
       /\ UNCHANGED <<task, ctx, swap, inflight, pending, batch, submit_batch,
                      payload, nfail, hist, cur, all_draining, unfinished>>

\* work_fn 2145-2157: deadlines, then submit_io_rep(worker, g_queue_depth)
StartWork ==
    /\ pc = "start"
    /\ \E O \in OraclesFor(submit_io_rep(Bundle, Calm)) :
          Finish(submit_io_rep(Bundle, O), "loop_top", cur, all_draining, unfinished)
    /\ warmup' = cfg.warmup_time
    /\ UNCHANGED <<sideVars, cfg, g_exit, iters, reaped>>

\* sig_handler / nvme_poll_ctrlrs set g_exit at any point of the main loop;
\* work_fn reads it at the loop head only
SetExit ==
    /\ pc \in {"loop_top", "poll", "loop_end"}
    /\ ~g_exit
    /\ g_exit' = TRUE
    /\ UNCHANGED <<sideVars, cfg, task, ctx, swap, inflight, pending, batch, submit_batch, payload,
                   warmup, all_draining, unfinished, pc, cur, iters, nfail, reaped, hist>>

\* work_fn 2164-2178 for context c, up to the call of check_io
EnterCtx(B, c, nall) ==
    /\ \E O \in OraclesFor(RetryQueuedTasks(B, c, Calm)) :
          Finish(RetryQueuedTasks(B, c, O), "poll", c, nall, unfinished)
    /\ reaped' = 0

\* while (spdk_likely(!g_exit)) { bool all_draining = true; first context ...
LoopTop ==
    /\ pc = "loop_top"
    /\ IF g_exit
       THEN /\ pc' = "drain" /\ unfinished' = 0 /\ cur' = 1
            /\ UNCHANGED <<task, ctx, swap, inflight, pending, batch, submit_batch,
                           payload, nfail, hist, all_draining, reaped>>
       ELSE EnterCtx(Bundle, 1, TRUE)
    /\ UNCHANGED <<sideVars, cfg, g_exit, warmup, iters>>

\* the transport calls io_complete for one submission it holds on the polled context
IoComplete ==
    /\ pc \in {"poll", "drain_poll"}
    /\ reaped < MaxReap
    /\ \E t \in TaskIds :
          /\ inflight[t] > 0
          /\ task[t].ctx = cur
          /\ \E kind \in (IF nfail < MaxFail THEN CplKinds ELSE {"ok"}) :
             LET B == [Bundle EXCEPT !.inflight[t] = @ - 1,
                                     !.nfail = IF kind = "ok" THEN @ ELSE @ + 1]
             IN  \E O \in OraclesFor(io_complete(B, t, kind, Calm)) :
                    Finish(io_complete(B, t, kind, O), pc, cur, all_draining, unfinished)
    /\ reaped' = reaped + 1
    /\ UNCHANGED <<sideVars, cfg, g_exit, warmup, iters>>

\* perf_disconnect_cb, called from the poll group while it is polled
PerfDisconnect ==
    /\ pc \in {"poll", "drain_poll"}
    /\ nfail < MaxFail
    /\ ctx' = [ctx EXCEPT ![cur].draining = TRUE, ![cur].status = 1]
    /\ nfail' = nfail + 1
    /\ UNCHANGED <<sideVars, cfg, task, swap, inflight, pending, batch, submit_batch, payload,
                   g_exit, warmup, all_draining, unfinished, pc, cur, iters,
                   reaped, hist>>

\* nvme_check_io 1117-1121: rc < 0 from the poll group sets status = 1
PollReturned(failed) ==
    [Bundle EXCEPT !.ctx[cur].status = IF failed THEN 1 ELSE @,
                   !.nfail = IF failed THEN @ + 1 ELSE @]
PollFailChoices == IF nfail < MaxFail /\ reaped = 0 THEN BOOLEAN ELSE {FALSE}

\* work_fn 2195-2214, then the all_draining / deadline test is reached
GateStep(B, nall) ==
    /\ \E O \in OraclesFor(BatchGate(B, Calm)) :
          Finish(BatchGate(B, O), "loop_end", cur, nall, unfinished)
    /\ reaped' = 0

\* nvme_check_io returns; work_fn 2183-2192, then the next context or the gate
CheckIoReturn ==
    /\ pc = "poll"
    /\ \E failed \in PollFailChoices :
          LET nall == all_draining /\ ctx[cur].draining
          IN  IF cur < cfg.nctx THEN EnterCtx(PollReturned(failed), cur + 1, nall)
                                ELSE GateStep(PollReturned(failed), nall)
    /\ UNCHANGED <<sideVars, cfg, g_exit, warmup, iters>>

\* a warm-up transition that leaves the statistics as they are
KeepStats == ctx
\* a reset that clears the whole ns_worker_ctx instead of its stats
ResetContext ==
    [c \in CtxIds |->
        IF c \in Ctxs
        THEN [ctx[c] EXCEPT !.sub = 0, !.comp = 0, !.draining = FALSE, !.status = 0]
        ELSE ctx[c]]

\* memset(&ns_ctx->stats, 0, ...) for every context of the worker (2233-2237)
ResetStats ==
    [c \in CtxIds |-> IF c \in Ctxs THEN [ctx[c] EXCEPT !.sub = 0, !.comp = 0] ELSE ctx[c]]

\* work_fn 2216-2248: all_draining break, deadline, warm-up transition
LoopEnd ==
    /\ pc = "loop_end"
    /\ iters' = iters + 1
    /\ IF all_draining
       THEN /\ pc' = "drain" /\ cur' = 1 /\ unfinished' = 0
            /\ UNCHANGED <<ctx, warmup, hist>>
       ELSE \E passed \in BOOLEAN :
            /\ (iters + 1 >= MaxIters) => passed
            /\ IF ~passed
               THEN pc' = "loop_top" /\ UNCHANGED <<ctx, warmup, hist, cur, unfinished>>
               ELSE IF warmup
               THEN /\ ctx' = ResetStats
                    /\ hist' = [hist EXCEPT
                                   !.resetFlagged =
                                       @ \/ (\E c \in Ctxs : ctx[c].draining /\ ctx[c].status # 0),
                                   !.resetDepth =
                                       [c \in CtxIds |-> IF c \in Ctxs THEN ctx[c].cqd ELSE @[c]]]
                    /\ warmup' = FALSE
                    /\ pc' = "loop_top"
                    /\ UNCHANGED <<cur, unfinished>>
               ELSE /\ pc' = "drain" /\ cur' = 1 /\ unfinished' = 0
                    /\ UNCHANGED <<ctx, warmup, hist>>
    /\ UNCHANGED <<sideVars, cfg, task, swap, inflight, pending, batch, submit_batch, payload,
                   g_exit, all_draining, nfail, reaped>>

\* after a context of the drain loop: next context, next round, or cleanup
DrainAdvance(nunf) ==
    IF cur < cfg.nctx
    THEN pc' = "drain" /\ cur' = cur + 1 /\ unfinished' = nunf
    ELSE IF nunf > 0
    THEN pc' = "drain" /\ cur' = 1 /\ unfinished' = 0
    ELSE pc' = "cleanup" /\ cur' = 1 /\ unfinished' = 0

\* a drain loop that polls without marking the context draining
DrainCtxNoMark ==
    /\ pc = "drain"
    /\ IF ~U64IsZero(ctx[cur].cqd)
       THEN pc' = "drain_poll" /\ UNCHANGED <<cur, unfinished>>
       ELSE DrainAdvance(unfinished)
    /\ reaped' = 0
    /\ UNCHANGED <<sideVars, cfg, task, ctx, swap, inflight, pending, batch, submit_batch,
                   payload, g_exit, warmup, all_draining, iters, nfail, hist>>

\* work_fn 2262-2267: mark draining, enter check_io when I/O is outstanding
DrainCtx ==
    /\ pc = "drain"
    /\ ctx' = [ctx EXCEPT ![cur].draining = TRUE]
    /\ IF ~U64IsZero(ctx[cur].cqd)
       THEN pc' = "drain_poll" /\ UNCHANGED <<cur, unfinished>>
       ELSE DrainAdvance(unfinished)
    /\ reaped' = 0
    /\ UNCHANGED <<sideVars, cfg, task, swap, inflight, pending, batch, submit_batch, payload,
                   g_exit, warmup, all_draining, iters, nfail, hist>>

\* check_io returns in the drain loop (2268-2272)
DrainCheckIoReturn ==
    /\ pc = "drain_poll"
    /\ \E failed \in PollFailChoices :
          /\ ctx' = PollReturned(failed).ctx
          /\ nfail' = PollReturned(failed).nfail
    /\ DrainAdvance(IF ~U64IsZero(ctx[cur].cqd) THEN unfinished + 1 ELSE unfinished)
    /\ reaped' = 0
    /\ UNCHANGED <<sideVars, cfg, task, swap, inflight, pending, batch, submit_batch, payload,
                   g_exit, warmup, all_draining, iters, hist>>

\* cleanup_ns_worker_ctx(ns_ctx) for the next context (2282-2284)
Cleanup ==
    /\ pc = "cleanup"
    /\ \E O \in OraclesFor(cleanup_ns_worker_ctx(Bundle, cur, Calm)) :
          Finish(cleanup_ns_worker_ctx(Bundle, cur, O),
                 IF cur < cfg.nctx THEN "cleanup" ELSE "done",
                 IF cur < cfg.nctx THEN cur + 1 ELSE cur, all_draining, unfinished)
    /\ UNCHANGED <<sideVars, cfg, g_exit, warmup, iters, reaped>>

Next ==
    \/ StartWork
    \/ SetExit
    \/ LoopTop
    \/ IoComplete
    \/ PerfDisconnect
    \/ CheckIoReturn
    \/ LoopEnd
    \/ DrainCtx
    \/ DrainCheckIoReturn
    \/ Cleanup

Spec == Init /\ [][Next]_vars

\* the same worker started with a submission budget
InitN == InitWith(BudgetConfigs)
SpecN == InitN /\ [][Next]_vars

\* random workloads (-w randwrite): rand_r() % size_in_ios of the primary's
\* namespace, one worker with g_rep_num contexts, no -K, no retry
RandomConfigs ==
    { [c EXCEPT !.is_random = TRUE] :
          c \in { d \in AllConfigs :
                     /\ d.nctx = d.rep_num /\ d.io_limit = 1 /\ ~d.coe /\ ~d.rate
                     /\ ~d.main_last /\ ~d.warmup_time /\ ~d.debug
                     /\ d.number_ios <= d.queue_depth + 1 } }
InitR == InitWith(RandomConfigs)
SpecR == InitR /\ [][Next]_vars

(* ------------- several workers in rate-limited mode (-E) --------------- *)
\* Every worker runs work_fn on its own context (one namespace per worker,
\* -n 1) while perf_task_link_head / perf_task_link_tail, batch and
\* submit_batch are statics of the process. A step is one statement group of
\* one worker; the steps of different workers interleave.
workerVars == <<cfg, task, ctx, swap, inflight, pending, batch, submit_batch, payload,
                g_exit, warmup, all_draining, unfinished, pc, cur, iters, nfail,
                reaped, hist>>
notMw == <<workerVars, ll, gt, qp, br, iw, cw>>
notLl == <<workerVars, mw, gt, qp, br, iw, cw>>
notGt == <<workerVars, mw, ll, qp, br, iw, cw>>
notQp == <<workerVars, mw, ll, gt, br, iw, cw>>
notBr == <<workerVars, mw, ll, gt, qp, iw, cw>>
notIw == <<workerVars, mw, ll, gt, qp, br, cw>>
notCw == <<workerVars, mw, ll, gt, qp, br, iw>>

WConfig ==
    /\ cfg.rate /\ cfg.nctx = 1 /\ cfg.rep_num = 1 /\ ~cfg.debug
    /\ ~cfg.coe /\ cfg.number_ios = 0 /\ ~cfg.warmup_time /\ ~cfg.main_last
    /\ cfg.io_limit = 1

WAlive == ~mw.crashed

\* submit_io_rep with io_num_per_second > 0 (2019-2027): queue_depth pushes
WStart ==
    \E w \in Workers :
        /\ WAlive /\ mw.wpc[w] = "start"
        /\ mw' = [mw EXCEPT !.wpc[w] = "poll",
                     !.pend = @ \o [k \in 1..cfg.queue_depth |-> <<w, k>>]]
        /\ UNCHANGED notMw

\* check_io on the worker's own qpair reaps one completion: task_complete
\* with g_rep_num = 1 pushes the primary and counts it in batch (1869-1878)
WComplete ==
    \E w \in Workers : \E k \in mw.out[w] :
        /\ WAlive /\ mw.wpc[w] = "poll"
        /\ mw' = [mw EXCEPT !.out[w] = @ \ {k}, !.cqd[w] = @ - 1,
                     !.pend = Append(@, <<w, k>>), !.batch = @ + 1]
        /\ UNCHANGED notMw

\* check_io returns (2181-2192)
WPollDone ==
    \E w \in Workers :
        /\ WAlive /\ mw.wpc[w] = "poll"
        /\ mw' = [mw EXCEPT !.wpc[w] = "gate"]
        /\ UNCHANGED notMw

\* one round of while (submit_batch < batch_size) (2196-2206): the task of
\* perf_task_link_head->next is submitted on the context it belongs to
WGatePop ==
    \E w \in Workers :
        /\ WAlive /\ mw.wpc[w] = "gate"
        /\ mw.submit_batch < cfg.batch_size
        /\ IF mw.pend = << >>
           THEN mw' = [mw EXCEPT !.crashed = TRUE]   \* temp_perf_task_link is NULL
           ELSE LET o == Head(mw.pend)[1]
                    k == Head(mw.pend)[2]
                IN  mw' = [mw EXCEPT !.pend = Tail(@),
                              !.out[o] = @ \cup {k}, !.cqd[o] = @ + 1,
                              !.submit_batch = @ + 1,
                              !.foreign = @ \/ (o # w)]
        /\ UNCHANGED notMw

\* the gate is closed (2207-2213), then the end of the iteration (2216-2247)
WGateEnd ==
    \E w \in Workers :
        /\ WAlive /\ mw.wpc[w] = "gate"
        /\ mw.submit_batch >= cfg.batch_size
        /\ LET reset == mw.batch >= cfg.batch_size
               last == mw.witers[w] + 1 >= MaxIters
           IN  mw' = [mw EXCEPT
                        !.batch = IF reset THEN 0 ELSE @,
                        !.submit_batch = IF reset THEN 0 ELSE @,
                        !.witers[w] = @ + 1,
                        !.wpc[w] = IF last THEN "drain" ELSE "poll"]
        /\ UNCHANGED notMw

\* first pass of the drain loop: is_draining = true (2264-2266)
WDrainEnter ==
    \E w \in Workers :
        /\ WAlive /\ mw.wpc[w] = "drain"
        /\ mw' = [mw EXCEPT !.draining[w] = TRUE, !.wpc[w] = "drain_poll"]
        /\ UNCHANGED notMw

\* a completion reaped by the drain loop: the logical I/O is released
WDrainComplete ==
    \E w \in Workers : \E k \in mw.out[w] :
        /\ WAlive /\ mw.wpc[w] = "drain_poll"
        /\ mw' = [mw EXCEPT !.out[w] = @ \ {k}, !.cqd[w] = @ - 1]
        /\ UNCHANGED notMw

\* unfinished_ns_ctx = 0 (2274), cleanup, return
WDrainDone ==
    \E w \in Workers :
        /\ WAlive /\ mw.wpc[w] = "drain_poll"
        /\ U64IsZero(mw.cqd[w])
        /\ mw' = [mw EXCEPT !.wpc[w] = "done"]
        /\ UNCHANGED notMw

NextW ==
    \/ WStart
    \/ WComplete
    \/ WPollDone
    \/ WGatePop
    \/ WGateEnd
    \/ WDrainEnter
    \/ WDrainComplete
    \/ WDrainDone

InitW == Init /\ WConfig
SpecW == InitW /\ [][NextW]_vars

(* ------------------ latency log (PERF_LATENCY_LOG build) --------------- *)
\* The workers add samples to latency_msg from nvme_submit_io (987-992) and
\* task_complete (1827-1832); the timer thread runs latency_log_1s. A step is
\* one statement of one thread; io_num++ is a load and a store.
LConfig ==
    /\ Options(cfg) = 0 /\ cfg.nctx = MaxCtx /\ cfg.rep_num = MaxCtx
    /\ cfg.queue_depth = 1 /\ cfg.batch_size = 1 /\ ~cfg.debug

\* pthread_mutex_lock(&log_mutex) with no regard for the owner
MutexIgnored(m) == TRUE

\* pthread_mutex_lock(&log_mutex) returns once the mutex is free
MutexFree(m) == m = "free"

\* pthread_mutex_lock in nvme_submit_io / task_complete; the row is task->ns_id
LUpdLock ==
    \E w \in Workers : \E r \in Rows : \E g \in Stages :
        /\ ll.upc[w] = "idle" /\ ll.nupd[w] < MaxSamples
        /\ MutexFree(ll.mutex)
        /\ ll' = [ll EXCEPT !.mutex = "held", !.upc[w] = "load", !.sel[w] = <<r, g>>]
        /\ UNCHANGED notLl

\* io_num++, first half
LUpdLoad ==
    \E w \in Workers :
        /\ ll.upc[w] = "load"
        /\ ll' = [ll EXCEPT !.tmp[w] = ll.acc[ll.sel[w][1]][ll.sel[w][2]],
                     !.upc[w] = "store"]
        /\ UNCHANGED notLl

\* io_num++, second half
LUpdStore ==
    \E w \in Workers :
        /\ ll.upc[w] = "store"
        /\ ll' = [ll EXCEPT !.acc[ll.sel[w][1]][ll.sel[w][2]] = ll.tmp[w] + 1,
                     !.added[ll.sel[w][1]][ll.sel[w][2]] = @ + 1,
                     !.upc[w] = "unlock"]
        /\ UNCHANGED notLl

\* pthread_mutex_unlock(&log_mutex)
LUpdUnlock ==
    \E w \in Workers :
        /\ ll.upc[w] = "unlock"
        /\ ll' = [ll EXCEPT !.mutex = "free", !.upc[w] = "idle", !.nupd[w] = @ + 1]
        /\ UNCHANGED notLl

\* latency_log_1s: pthread_mutex_lock (314)
LSampLock ==
    /\ ll.spc = "idle" /\ ll.ticks < MaxTicks
    /\ MutexFree(ll.mutex)
    /\ ll' = [ll EXCEPT !.mutex = "held", !.spc = "check"]
    /\ UNCHANGED notLl

\* is_io_num_not_empty() (315)
LSampCheck ==
    /\ ll.spc = "check"
    /\ ll' = [ll EXCEPT !.spc =
                 IF \E r \in Rows : \E g \in Stages : ll.acc[r][g] # 0
                 THEN "copy" ELSE "unlock"]
    /\ UNCHANGED notLl

\* copy_latency_ns_log(temp) (318-320)
LSampCopy ==
    /\ ll.spc = "copy"
    /\ ll' = [ll EXCEPT !.temp = ll.acc, !.spc = "send"]
    /\ UNCHANGED notLl

\* msgsnd (321): the snapshot leaves for the writer thread
LSampSend ==
    /\ ll.spc = "send"
    /\ ll' = [ll EXCEPT
                 !.sent = [r \in Rows |-> [g \in Stages |-> @[r][g] + ll.temp[r][g]]],
                 !.nsnap = @ + 1, !.spc = "zero"]
    /\ UNCHANGED notLl

\* cleanup_log() (322)
LSampZero ==
    /\ ll.spc = "zero"
    /\ ll' = [ll EXCEPT !.acc = NoSamples, !.spc = "unlock"]
    /\ UNCHANGED notLl

\* pthread_mutex_unlock (324)
LSampUnlock ==
    /\ ll.spc = "unlock"
    /\ ll' = [ll EXCEPT !.mutex = "free", !.spc = "idle", !.ticks = @ + 1]
    /\ UNCHANGED notLl

NextL ==
    \/ LUpdLock
    \/ LUpdLoad
    \/ LUpdStore
    \/ LUpdUnlock
    \/ LSampLock
    \/ LSampCheck
    \/ LSampCopy
    \/ LSampSend
    \/ LSampZero
    \/ LSampUnlock

InitL == Init /\ LConfig
SpecL == InitL /\ [][NextL]_vars

(* ------------------- batch gate with its clock (-E, -B) ---------------- *)
\* One worker in rate-limited mode with one context and g_rep_num = 1. A step
\* is one statement group of work_fn, or the clock moving.
GConfig ==
    /\ cfg.rate /\ cfg.nctx = 1 /\ cfg.rep_num = 1 /\ ~cfg.debug
    /\ ~cfg.coe /\ ~cfg.warmup_time /\ ~cfg.main_last
    /\ cfg.io_limit = 1

IpsChoices == 1..MaxIps
Ts(u) == [sec |-> u \div NsPerSec, nsec |-> u % NsPerSec]
Units(ts) == ts.sec * NsPerSec + ts.nsec

\* timespec_sub without the borrow of one second
timespec_sub_no_borrow(a, b) ==
    LET sec == a.sec - b.sec
        nsec == a.nsec - b.nsec
    IN  [res |-> [sec |-> sec, nsec |-> nsec], rc |-> IF sec < 0 THEN -1 ELSE 0]

\* timespec_sub(result, a, b): the difference and the value returned
timespec_sub(a, b) ==
    LET sec0 == a.sec - b.sec
        nsec0 == a.nsec - b.nsec
        sec == IF nsec0 < 0 THEN sec0 - 1 ELSE sec0
        nsec == IF nsec0 < 0 THEN nsec0 + NsPerSec ELSE nsec0
    IN  [res |-> [sec |-> sec, nsec |-> nsec], rc |-> IF sec < 0 THEN -1 ELSE 0]

\* timespec_divide(ts, num)
timespec_divide(ts, num) ==
    IF num <= 0 THEN ts
    ELSE LET sec_result == ts.sec \div num
             sec_remainder == ts.sec % num
             nsec_result == ts.nsec \div num
             nsec_remainder == ts.nsec % num
             remainder_nsec_as_sec == sec_remainder * NsPerSec + nsec_remainder
             nsec2 == nsec_result + (remainder_nsec_as_sec \div num)
         IN  [sec |-> sec_result + (nsec2 \div NsPerSec), nsec |-> nsec2 % NsPerSec]

\* timespec_multiply(ts, num): the product as a normalised timespec
timespec_multiply(ts, num) == Ts(Units(ts) * num)

\* io_send_period of judge_if_send (1412-1415)
io_send_period ==
    timespec_multiply(timespec_divide([sec |-> 1, nsec |-> 0], gt.ips), cfg.batch_size)

\* judge_if_send() returns true (1416-1419)
judge_if_send ==
    LET d == timespec_sub(gt.now, gt.before_time).res
    IN  timespec_sub(d, io_send_period).rc = 0

\* what follows the gate in the iteration: all_draining breaks the loop (2216)
AfterGate == IF gt.draining THEN "done" ELSE "poll"

\* parse_args (-E), then submit_io_rep pushes queue_depth primaries (2019-2027)
GStart ==
    /\ gt.gpc = "start"
    /\ \E i \in IpsChoices : \E u \in 0..NsPerSec :
          gt' = [gt EXCEPT !.gpc = "poll", !.ips = i, !.now = Ts(u),
                           !.pend = cfg.queue_depth]
    /\ UNCHANGED notGt

\* check_io reaps a completion: task_complete pushes the primary and counts
\* it in batch, or releases it when the context is draining (1862-1878)
GComplete ==
    /\ gt.gpc = "poll" /\ gt.out > 0
    /\ gt' = IF gt.draining
             THEN [gt EXCEPT !.out = @ - 1]
             ELSE [gt EXCEPT !.out = @ - 1, !.pend = @ + 1, !.batch = @ + 1,
                             !.cnt = @ + 1]
    /\ UNCHANGED notGt

\* perf_disconnect_cb during check_io
GDisconnect ==
    /\ gt.gpc = "poll" /\ ~gt.draining
    /\ gt' = [gt EXCEPT !.draining = TRUE]
    /\ UNCHANGED notGt

\* check_io returns (2181-2192)
GPollDone ==
    /\ gt.gpc = "poll"
    /\ gt' = [gt EXCEPT !.gpc = "gate"]
    /\ UNCHANGED notGt

\* g_number_ios && ns_ctx->stats.io_submitted >= g_number_ios (1761)
BudgetSpent(n) == cfg.number_ios # 0 /\ n >= cfg.number_ios

\* one round of while (submit_batch < batch_size) (2196-2206): the primary is
\* submitted by submit_single_io_rep, whose assert is absent in this build
GGatePop ==
    /\ gt.gpc = "gate"
    /\ gt.submit_batch < cfg.batch_size
    /\ gt' = IF gt.pend = 0
             THEN [gt EXCEPT !.gpc = "crashed"]     \* temp_perf_task_link is NULL
             ELSE [gt EXCEPT !.pend = @ - 1, !.out = @ + 1,
                             !.sub = @ + 1,
                             !.draining = @ \/ BudgetSpent(gt.sub + 1),
                             !.submit_batch = @ + 1, !.subs = @ + 1]
    /\ UNCHANGED notGt

\* if (batch >= batch_size) { batch = 0; submit_batch = 0; ... (2207-2209)
GGateEnd ==
    /\ gt.gpc = "gate"
    /\ gt.submit_batch >= cfg.batch_size
    /\ gt' = IF gt.batch >= cfg.batch_size
             THEN [gt EXCEPT !.batch = 0, !.submit_batch = 0, !.subs = 0, !.cnt = 0,
                             !.gpc = "wait"]
             ELSE [gt EXCEPT !.gpc = AfterGate]
    /\ UNCHANGED notGt

\* while (!judge_if_send()) continue; (2210-2212): the call that returns true
\* sets before_time to the time it read (1420)
GJudge ==
    /\ gt.gpc = "wait"
    /\ judge_if_send
    /\ gt' = [gt EXCEPT !.before_time = gt.now, !.gpc = AfterGate,
                        !.resets = IF @ < 2 THEN @ + 1 ELSE @]
    /\ UNCHANGED notGt

\* CLOCK_REALTIME advances
GTick ==
    /\ gt.gpc \notin {"start", "done", "crashed"}
    /\ Units(gt.now) < MaxClock
    /\ gt' = [gt EXCEPT !.now = Ts(Units(gt.now) + 1)]
    /\ UNCHANGED notGt

\* CLOCK_REALTIME is set back
GStepBack ==
    /\ gt.gpc \notin {"start", "done", "crashed"}
    /\ Units(gt.now) > 0
    /\ gt' = [gt EXCEPT !.now = Ts(Units(gt.now) - 1)]
    /\ UNCHANGED notGt

NextG ==
    \/ GStart
    \/ GComplete
    \/ GDisconnect
    \/ GPollDone
    \/ GGatePop
    \/ GGateEnd
    \/ GJudge
    \/ GTick
    \/ GStepBack

\* the gate is explored with and without a submission budget (-d)
GateConfigs == { c \in AllConfigs : c.number_ios <= c.queue_depth + 1 }
InitG == InitWith(GateConfigs) /\ GConfig
SpecG == InitG /\ [][NextG]_vars

(* ---------------------- queue pairs of a context ----------------------- *)
QConfig ==
    /\ Options(cfg) = 0 /\ cfg.nctx = MaxCtx /\ cfg.rep_num = MaxCtx
    /\ cfg.queue_depth = 1 /\ cfg.batch_size = 1 /\ ~cfg.debug

\* a round robin that wraps at num_all_qpairs
NextQpairAll(c) ==
    IF qp.last_qpair[c] + 1 = qp.num_all_qpairs[c] THEN 0 ELSE qp.last_qpair[c] + 1

\* last_qpair++; if (last_qpair == num_active_qpairs) last_qpair = 0; (962-965)
NextQpair(c) ==
    IF qp.last_qpair[c] + 1 = qp.num_active_qpairs[c] THEN 0 ELSE qp.last_qpair[c] + 1

\* parse_args: -P and -U; -P 0 is rejected (3287)
QParse ==
    /\ qp.qpc = "parse"
    /\ \E p \in 1..MaxQpairs : \E u \in 0..MaxUnused :
          qp' = [qp EXCEPT !.qpc = "run", !.per_ns = p, !.unused = u]
    /\ UNCHANGED notQp

\* nvme_init_ns_worker_ctx (1167-1169)
QInitCtx ==
    \E c \in Ctxs :
        /\ qp.qpc = "run" /\ ~qp.inited[c]
        /\ qp' = [qp EXCEPT !.inited[c] = TRUE,
                     !.num_active_qpairs[c] = qp.per_ns,
                     !.num_all_qpairs[c] = qp.per_ns + qp.unused]
        /\ UNCHANGED notQp

\* nvme_submit_io (961-965): the command goes to qpair[qp_num]
QSubmit ==
    \E c \in Ctxs :
        /\ qp.qpc = "run" /\ qp.inited[c]
        /\ qp.nsub[c] < MaxSubmits
        /\ qp' = [qp EXCEPT !.qp_num[c] = qp.last_qpair[c],
                     !.last_qpair[c] = NextQpair(c),
                     !.carried[c] = @ \cup {qp.last_qpair[c]},
                     !.nsub[c] = @ + 1]
        /\ UNCHANGED notQp

NextQ ==
    \/ QParse
    \/ QInitCtx
    \/ QSubmit

InitQ == Init /\ QConfig
SpecQ == InitQ /\ [][NextQ]_vars

(* ---------------------- io_id of the logical I/Os ---------------------- *)
IConfig ==
    /\ Options(cfg) = 0 /\ cfg.nctx = MaxCtx /\ cfg.rep_num = MaxCtx
    /\ cfg.queue_depth = 1 /\ cfg.batch_size = 1 /\ ~cfg.debug

\* parse_args: -q
IParse ==
    /\ iw.ipc = "parse"
    /\ \E q \in 1..MaxIdQD : iw' = [iw EXCEPT !.ipc = "emit", !.queue_depth = q]
    /\ UNCHANGED notIw

\* submit_io_rep: io_id = 1; one logical I/O per unit of queue depth; io_id++
IEmit ==
    /\ iw.ipc = "emit"
    /\ iw' = [iw EXCEPT !.ipc = "run",
                 !.io_id = [k \in 1..MaxIdQD |-> IF k <= iw.queue_depth THEN k ELSE 0],
                 !.live = [k \in 1..MaxIdQD |-> k <= iw.queue_depth]]
    /\ UNCHANGED notIw

\* task_complete, N-th completion of logical I/O k, no context draining: every
\* sibling is stamped with io_id + g_queue_depth and the logical I/O goes on
IReissue ==
    \E k \in 1..MaxIdQD :
        /\ iw.ipc = "run" /\ iw.live[k]
        /\ iw' = [iw EXCEPT !.io_id[k] = StampIoId(@, iw.queue_depth)]
        /\ UNCHANGED notIw

\* task_complete, N-th completion with a draining context: rep_task_release
IRelease ==
    \E k \in 1..MaxIdQD :
        /\ iw.ipc = "run" /\ iw.live[k]
        /\ iw' = [iw EXCEPT !.live[k] = FALSE]
        /\ UNCHANGED notIw

NextI ==
    \/ IParse
    \/ IEmit
    \/ IReissue
    \/ IRelease

InitI == Init /\ IConfig
SpecI == InitI /\ [][NextI]_vars

(* ------------------------ the latency CSV file ------------------------- *)
CConfig ==
    /\ Options(cfg) = 0 /\ cfg.nctx = MaxCtx /\ cfg.rep_num = MaxCtx
    /\ cfg.queue_depth = 1 /\ cfg.batch_size = 1 /\ ~cfg.debug

\* the fields of struct latency_ns_log, in the order of the declaration
LogStages == <<"task_queue", "task_complete", "req_send", "req_complete",
               "wr_send", "wr_complete">>
\* one struct latency_ns_log: stage j has io_num (a + j * b) % 4 and a latency
\* of 3 * io_num + j clock units
NsLog(a, b) ==
    [j \in 1..6 |->
        LET n == (a + j * b) % 4
        IN  [io_num |-> n, latency_time |-> Ts(3 * n + j)]]
NsLogs == { NsLog(a, b) : a \in 0..MaxAcc, b \in 0..MaxAcc }
\* is_io_num_not_empty: latency_log_1s posts a snapshot only if some io_num is not 0
NotEmpty(m) == \E i \in 1..Len(m) : \E j \in 1..6 : m[i][j].io_num # 0

\* fprint_log(file, i, num, name, latency, io_num): one line of the file
fprint_log(i, num, namespace_num, name, latency, io_num) ==
    [ kind |-> "row", id |-> num \div namespace_num, ns_id |-> i, name |-> name,
      latency |-> latency, io_num |-> io_num,
      average_latency |-> timespec_divide(latency, io_num) ]

\* write_log_tasks_to_file(i, ..., new_line): the title line on the first call,
\* six fprint_log calls, "\n" if new_line, num++
write_log_tasks_to_file(W, i, L, new_line) ==
    LET title == IF W.if_open THEN << >> ELSE << [kind |-> "title"] >>
        row(j) == fprint_log(i, W.num, W.namespace_num, LogStages[j],
                             L[j].latency_time,
                             IF j = 5 THEN L[6].io_num ELSE L[j].io_num)
        rows == [j \in 1..6 |-> row(j)]
    IN  [W EXCEPT !.if_open = TRUE,
                  !.file = @ \o title \o rows \o (IF new_line THEN << [kind |-> "blank"] >> ELSE << >>),
                  !.num = @ + 1]

\* write_latency_tasks_log: for (i = 0; i < namespace_num; i++)
RECURSIVE WriteFrom(_, _)
WriteFrom(W, i) ==
    IF i >= W.namespace_num THEN W
    ELSE WriteFrom(write_log_tasks_to_file(W, i, W.msg[i + 1], i = W.namespace_num - 1),
                   i + 1)

\* main: namespace_num = g_num_namespaces (3963)
CStart ==
    /\ cw.cpc = "init"
    /\ \E n \in 1..MaxCtx : cw' = [cw EXCEPT !.cpc = "recv", !.namespace_num = n]
    /\ UNCHANGED notCw

\* msgrcv returns a snapshot latency_log_1s posted
CReceive ==
    /\ cw.cpc = "recv" /\ Len(cw.snaps) < MaxSnaps
    /\ \E m \in [1..cw.namespace_num -> NsLogs] :
          /\ NotEmpty(m)
          /\ cw' = [cw EXCEPT !.cpc = "write", !.msg = m]
    /\ UNCHANGED notCw

\* write_latency_tasks_log(ctx, ...), free(ctx)
CWrite ==
    /\ cw.cpc = "write"
    /\ cw' = [WriteFrom(cw, 0) EXCEPT !.cpc = "recv", !.msg = << >>,
                                     !.snaps = Append(@, cw.msg)]
    /\ UNCHANGED notCw

NextC ==
    \/ CStart
    \/ CReceive
    \/ CWrite

InitC == Init /\ CConfig
SpecC == InitC /\ [][NextC]_vars

(* ------------------- start barrier and exit code ----------------------- *)
BConfig ==
    /\ Options(cfg) = 0 /\ cfg.rep_num = cfg.nctx
    /\ cfg.queue_depth = 1 /\ cfg.batch_size = 1 /\ ~cfg.debug

Launched == 1..br.n

\* a work_fn that waits on the barrier only after a successful init
ArrivesAfterInitOnly(w) == br.wpc[w] = "init" /\ br.k[w] > cfg.nctx

\* work_fn reaches pthread_barrier_wait: in the failure branch of the init
\* loop (2131-2134) or after the loop (2139)
ArrivesAtBarrier(w) ==
    \/ br.wpc[w] = "fail"
    \/ br.wpc[w] = "init" /\ br.k[w] > cfg.nctx

\* main: pthread_barrier_init(&g_worker_sync_barrier, NULL, g_num_workers)
\* (3939), then work_fn is started once for every worker (3984-4001)
BLaunch ==
    /\ br.n = 0 /\ br.mpc = "run"
    /\ \E n \in Workers :
          br' = [br EXCEPT !.n = n,
                    !.wpc = [w \in Workers |-> IF w <= n THEN "init" ELSE "idle"]]
    /\ UNCHANGED notBr

\* if (init_ns_worker_ctx(ns_ctx) != 0) for the next context (2128-2129)
BInitCtx ==
    \E w \in Launched : \E ok \in BOOLEAN :
        /\ br.wpc[w] = "init" /\ br.k[w] <= cfg.nctx
        /\ br' = IF ok THEN [br EXCEPT !.k[w] = @ + 1]
                 ELSE [br EXCEPT !.bad[w] = br.k[w], !.wpc[w] = "fail"]
        /\ UNCHANGED notBr

\* pthread_barrier_wait: the call blocks until g_num_workers threads are in
\* the barrier, and then all of them return
BArrive ==
    \E w \in Launched :
        /\ ArrivesAtBarrier(w)
        /\ LET full == br.waiting + 1 = br.n
               b == [br EXCEPT !.arrivals[w] = @ + 1, !.wpc[w] = "blocked"]
           IN  br' = IF full
                     THEN [b EXCEPT !.waiting = 0,
                              !.wpc = [v \in Workers |->
                                          IF b.wpc[v] = "blocked" THEN "passed" ELSE b.wpc[v]]]
                     ELSE [b EXCEPT !.waiting = @ + 1]
        /\ UNCHANGED notBr

\* after the barrier: ns_ctx->status = 1; return 1; (2135-2136), or the
\* worker goes on to submit_io_rep (2157)
BAfter ==
    \E w \in Launched :
        /\ br.wpc[w] = "passed"
        /\ br' = IF br.bad[w] # 0
                 THEN [br EXCEPT !.status[w][br.bad[w]] = 1, !.ret[w] = 1,
                                 !.wpc[w] = "returned"]
                 ELSE [br EXCEPT !.submitted[w] = TRUE, !.wpc[w] = "running"]
        /\ UNCHANGED notBr

\* the worker runs to the end of work_fn; a context may end with status 1
\* (io_complete 1896-1903, nvme_check_io 1119, perf_disconnect_cb 1107)
BFinish ==
    \E w \in Launched : \E c \in Ctxs : \E st \in {0, 1} :
        /\ br.wpc[w] = "running"
        /\ br' = [br EXCEPT !.status[w][c] = st, !.ret[w] = 0, !.wpc[w] = "returned"]
        /\ UNCHANGED notBr

\* main gives up before the workers are launched: goto cleanup with rc = -1
\* (3889-3936), or with rc still 0 when there is no namespace (3918-3921)
BSetupFail ==
    /\ br.n = 0 /\ br.mpc = "run"
    /\ \E r \in {-1, 0} : br' = [br EXCEPT !.rc = r, !.mpc = "cleanup"]
    /\ UNCHANGED notBr

\* spdk_env_thread_wait_all() returns when every work_fn has returned
BWaitAll ==
    /\ br.n > 0 /\ br.mpc = "run"
    /\ \A w \in Launched : br.wpc[w] = "returned"
    /\ br' = [br EXCEPT !.mpc = "cleanup"]
    /\ UNCHANGED notBr

\* a collection that looks at the first context of a worker only
FirstCtxStatus(w) == br.status[w][1]

\* the inner TAILQ_FOREACH: the status of the first context of the worker
\* whose status is not 0, and 0 when there is none
FirstBadStatus(w) ==
    LET badc == { c \in Ctxs : br.status[w][c] # 0 }
    IN  IF badc = {} THEN 0
        ELSE br.status[w][CHOOSE c \in badc : \A d \in badc : c <= d]

\* the outer TAILQ_FOREACH over g_workers from worker w on
RECURSIVE CollectErrors(_, _)
CollectErrors(w, rc) ==
    IF w > MaxWorkers \/ rc # 0 THEN rc
    ELSE CollectErrors(w + 1, FirstBadStatus(w))

\* cleanup: collect the errors, release everything, return rc; the exit
\* status of the process is the low byte of what main returns
BCollect ==
    /\ br.mpc = "cleanup"
    /\ LET rc == CollectErrors(1, br.rc)
       IN  br' = [br EXCEPT !.rc = rc, !.code = rc % 256, !.mpc = "exited"]
    /\ UNCHANGED notBr

NextB ==
    \/ BLaunch
    \/ BInitCtx
    \/ BArrive
    \/ BAfter
    \/ BFinish
    \/ BSetupFail
    \/ BWaitAll
    \/ BCollect

InitB == Init /\ BConfig
\* every launched thread keeps being scheduled
SpecB == InitB /\ [][NextB]_vars /\ WF_vars(NextB)

(* ------------------------ observation helpers -------------------------- *)
Lios == 1..cfg.queue_depth
Running == pc \in {"loop_top", "poll", "loop_end", "drain", "drain_poll", "cleanup", "done"}

\* the perf_tasks linked from first through link.tqe_next
RECURSIVE Chain(_, _)
Chain(t, fuel) ==
    IF t = NULL \/ fuel = 0 THEN {} ELSE {t} \cup Chain(task[t].next, fuel - 1)
\* the siblings waiting on some queued_tasks list
QueuedTasks == UNION { Chain(ctx[c].qfirst, WalkFuel) : c \in Ctxs }
\* the primaries waiting in the pending list
PendingTasks == { pending[i] : i \in DOMAIN pending }

LioReleased(k) == task[Primary(k)].st = "freed"
LioLive(k) ==
    \/ Outstanding(Bundle, k)
    \/ SiblingsOf(k) \cap QueuedTasks # {}
    \/ Primary(k) \in PendingTasks
\* allocated, not released, and nothing of it anywhere: no completion can move it
LioParked(k) == task[Primary(k)].st = "live" /\ ~LioLive(k)
NoneDraining == \A c \in Ctxs : ~ctx[c].draining
\* the worker owns as many contexts as -n says a logical I/O has siblings
Matched == cfg.nctx = cfg.rep_num

(* ------------------------------- claims -------------------------------- *)
\* C1: a logical I/O is re-emitted or released only when none of its siblings
\* is outstanding at a transport, for every g_rep_num and number of contexts.
C1_DecisionOnlyWhenQuiet == ~hist.busyDecision

\* C2: between callbacks the primary's rep_completed_num is in 0..N-1 and equals
\* the number of sibling completions counted since the last decision: it never
\* exceeds N, a decision is taken exactly when it reaches N, and it is 0 after.
C2_CounterWithinN ==
    \A k \in Lios :
        task[Primary(k)].st = "live" =>
            /\ task[Primary(k)].rcn >= 0
            /\ task[Primary(k)].rcn < cfg.rep_num
            /\ task[Primary(k)].rcn = hist.shadow[k]
\* a decision was taken on the second completion of a two-sibling logical I/O
C2_Witness ==
    /\ cfg.rep_num = 2 /\ cfg.nctx = 2
    /\ \E k \in Lios :
          /\ task[Primary(k)].st = "live"
          /\ task[Primary(k)].io_id = k + cfg.queue_depth
          /\ task[Primary(k)].rcn = 0
          /\ ctx[1].comp > 0 /\ ctx[2].comp > 0

\* C3: when every sibling of a logical I/O has completed, the logical I/O is
\* re-emitted, pushed on the pending list or released in that callback; it is
\* never left with nothing outstanding, whatever the number of contexts.
C3_NeverParked == nfail = 0 => \A k \in Lios : ~LioParked(k)

\* C4: the DMA payload of a logical I/O is freed at most once, only by
\* rep_task_release, and never while a sibling that aliases it is outstanding
\* (stated for workers with as many contexts as g_rep_num).
C4_PayloadFreedOnceByRelease ==
    Matched =>
        /\ \A k \in LioIds : payload[k].frees <= 1
        /\ ~hist.copyFree
        /\ ~hist.busyFree

\* C5: submit_io is never called against a context whose is_draining is true
\* (stated for workers with as many contexts as g_rep_num).
C5_NoSubmitWhileDraining == Matched => ~hist.drainSubmit

\* C6 as stated: current_queue_depth = io_submitted - io_completed in every state.
C6_DepthIsSubmittedMinusCompleted ==
    \A c \in Ctxs : ctx[c].cqd = ctx[c].sub - ctx[c].comp
\* C6 amended: current_queue_depth = io_submitted - io_completed + d modulo 2^64,
\* d being the current_queue_depth the context had at the warm-up reset of the
\* statistics (0 when there was none).
C6_DepthIsSubmittedMinusCompletedSinceReset ==
    \A c \in Ctxs : ctx[c].cqd = ctx[c].sub - ctx[c].comp + hist.resetDepth[c]
\* a sibling submitted before the warm-up reset completed after it
C6_Witness ==
    /\ cfg.warmup_time /\ ~warmup /\ Running
    /\ \E c \in Ctxs : hist.resetDepth[c] > 0 /\ ctx[c].comp > 0 /\ ctx[c].sub > 0

\* C7: current_queue_depth is at most -q in every state, and never wraps below 0
\* (stated for workers with as many contexts as g_rep_num).
C7_DepthWithinQueueDepth ==
    Matched => \A c \in Ctxs : U64Le(ctx[c].cqd, cfg.queue_depth)

\* C8: io_completed <= io_submitted in every state (stated for workers with as
\* many contexts as g_rep_num).
C8_CompletedAtMostSubmitted ==
    Matched => \A c \in Ctxs : ctx[c].comp <= ctx[c].sub

\* C9: at most queue_depth logical I/Os are live, and in closed-loop mode with no
\* draining context and no failure exactly queue_depth are, between callbacks.
C9_LiveBudget ==
    /\ Cardinality({ k \in Lios : LioLive(k) }) <= cfg.queue_depth
    /\ Len(pending) <= cfg.queue_depth
    /\ (pc \in {"loop_top", "poll", "loop_end"} /\ ~cfg.rate /\ nfail = 0 /\ NoneDraining)
          => Cardinality({ k \in Lios : LioLive(k) }) = cfg.queue_depth

\* C10: every submit_io call for a sibling carries the offset_in_ios computed for
\* the emission the sibling belongs to, also when it is resubmitted from
\* queued_tasks (stated for workers with as many contexts as g_rep_num).
C10_SameOffsetPerEmission == Matched => ~hist.offMismatch

\* C11: every emission hands the siblings to submit_io in sibling-list order,
\* primary first (last with -f), each sibling once, also after an earlier
\* sibling's submission failed (stated for workers with as many contexts as
\* g_rep_num).
C11_EmissionInListOrder == Matched => ~hist.orderBroken

\* C12: every logical I/O built by submit_io_rep has exactly one sibling per
\* context of the worker, the primary on the first context, each sibling's
\* ns_id equal to the 0-based position of its context; and whenever a logical
\* I/O is reissued or released, every sibling was completed exactly once since
\* the emission started.
SiblingsBuilt(k) == { t \in SiblingsOf(k) : task[t].st # "none" }
C12_OneSiblingPerContext ==
    Running =>
        /\ \A k \in Lios :
              /\ SiblingsBuilt(k) = { Tid(k, j) : j \in Ctxs }
              /\ \A j \in Ctxs :
                    /\ task[Tid(k, j)].ctx = j
                    /\ task[Tid(k, j)].ns_id = j - 1
                    /\ task[Tid(k, j)].main = Primary(k)
              /\ task[Primary(k)].ctx = 1
        /\ ~hist.unevenDecision

\* C13: under a sequential workload the offsets chosen by successive
\* submit_single_io_rep calls are 0, 1, ..., m-1, 0, 1, ... with m the minimum
\* size_in_ios of the registered namespaces: the cursor of the primary context
\* is the number of emissions modulo m, it is below m between calls, and every
\* offset recorded in a sibling is below m.
C13_SequentialOffsets ==
    (Running /\ ~cfg.is_random /\ Matched) =>
        /\ ~hist.seqBroken
        /\ ctx[1].offset = hist.nextOff
        /\ ctx[1].offset < get_min_size_in_ios
        /\ \A t \in TaskIds : task[t].st = "live" => task[t].off < get_min_size_in_ios

LioGone(k) == \A j \in Ctxs : task[Tid(k, j)].st = "freed"
C15_FailedSubmitCompletes ==
    (Running /\ Matched /\ ~cfg.coe /\ hist.copyFree) =>
        \A k \in Lios : LioLive(k) \/ LioGone(k)

\* C16: with continue_on_error set, a sibling whose submission failed and that
\* waits on queued_tasks is still a member of its logical I/O's sibling list,
\* and that list, walked from rep_tasks.tqh_first through link.tqe_next, is
\* still the list submit_io_rep built: not cut, not reordered, not extended
\* with siblings of another logical I/O (stated for workers with as many
\* contexts as g_rep_num).
RECURSIVE ChainSeq(_, _)
ChainSeq(t, fuel) ==
    IF t = NULL \/ fuel = 0 THEN << >> ELSE <<t>> \o ChainSeq(task[t].next, fuel - 1)
C16_QueuedSiblingStaysListed ==
    (Running /\ cfg.coe /\ Matched) =>
        \A k \in Lios :
            task[Primary(k)].st = "live" =>
                ChainSeq(task[Primary(k)].rfirst, WalkFuel) = SiblingOrder(k)

\* C17: with two or more workers, a primary pushed on the pending FIFO by one
\* worker is popped and submitted by that worker only.
C17_PendingPoppedByPusher == ~mw.foreign

C19_CleanupAtZeroDepth ==
    (Matched /\ pc = "cleanup") =>
        \A c \in Ctxs : ctx[c].draining /\ U64IsZero(ctx[c].cqd)

\* the completion of sibling t is the g_rep_num-th of its logical I/O
NthCompletion(t) ==
    /\ task[t].st = "live"
    /\ task[task[t].main].st = "live"
    /\ task[task[t].main].rcn + 1 >= cfg.rep_num

\* C20: once g_exit is set the worker leaves the main loop at the next
\* evaluation of the loop condition and goes to the drain phase; from then on
\* (drain loop and cleanup) no sibling is submitted or pushed on the pending
\* FIFO, and a logical I/O whose N-th completion arrives is released.
C20_Step ==
    /\ (g_exit /\ pc = "loop_top") => pc' \in {"loop_top", "drain"}
    /\ pc \in {"drain", "drain_poll", "cleanup"} =>
          /\ \A t \in TaskIds : inflight'[t] <= inflight[t]
          /\ \A c \in Ctxs : ctx'[c].sub = ctx[c].sub
          /\ pending' = pending
          /\ \A t \in TaskIds :
                (inflight'[t] < inflight[t] /\ NthCompletion(t)) =>
                    task'[Primary(Lio(t))].st = "freed"
RECURSIVE PopsEmpty(_, _)
PopsEmpty(S, fuel) ==
    IF fuel = 0 \/ S.submit_batch >= cfg.batch_size \/ Stopped(S) THEN FALSE
    ELSE IF S.pending = << >> THEN TRUE
    ELSE LET S0 == [S EXCEPT !.pending = Tail(@)]
             S1 == submit_single_io_rep(S0, Head(S.pending), Calm)
         IN  PopsEmpty([S1 EXCEPT !.submit_batch = @ + 1], fuel - 1)

\* C21: in rate-limited mode the gate that runs when check_io of the last
\* context returns never removes or submits an entry from an empty pending
\* FIFO, for every queue depth and batch size.
C21_GateNeverPopsEmpty ==
    (cfg.rate /\ Matched /\ nfail = 0 /\ pc = "poll" /\ cur = cfg.nctx) =>
        ~PopsEmpty(Bundle, MaxBatch + 1)

\* the period (1 s / io_num_per_second) * batch_size, in clock units
PeriodUnits == (NsPerSec \div gt.ips) * cfg.batch_size

\* C22: in rate-limited mode at most batch_size logical I/Os are submitted
\* between two resets of the gate; the counters are reset only when batch_size
\* completions were counted since the previous reset; the wait that follows
\* ends only when at least the period has passed on the clock since
\* before_time, and before_time becomes the time read exactly then.
C22_Step ==
    /\ gt'.subs <= cfg.batch_size
    /\ (gt'.submit_batch < gt.submit_batch \/ gt'.batch < gt.batch) =>
          gt.cnt >= cfg.batch_size /\ gt'.gpc = "wait"
    /\ (gt.gpc = "wait" /\ gt'.gpc # "wait") =>
          /\ Units(gt.now) - Units(gt.before_time) >= PeriodUnits
          /\ gt'.before_time = gt.now
    /\ (gt'.before_time # gt.before_time) => (gt.gpc = "wait" /\ gt'.gpc # "wait")
C22_GateResets == [][C22_Step]_vars

\* two waits have ended, the second one against a before_time set by the
\* first, with a period that is not a whole number of seconds
C22_Witness ==
    /\ gt.resets >= 2 /\ gt.gpc = "poll"
    /\ io_send_period.nsec # 0
    /\ Units(gt.before_time) >= 2 * PeriodUnits

\* C23: with a submission budget g_number_ios (-d) a context whose
\* io_submitted has reached the budget is draining, and its io_submitted never
\* exceeds the budget, in closed-loop mode, in rate-limited mode and with
\* retry of queued siblings.
C23_BudgetRespected ==
    cfg.number_ios # 0 =>
        /\ gt.sub <= cfg.number_ios
        /\ (gt.sub >= cfg.number_ios => gt.draining)
        /\ Running =>
              \A c \in Ctxs :
                  /\ ctx[c].sub <= cfg.number_ios
                  /\ (ctx[c].sub >= cfg.number_ios => ctx[c].draining)

\* C24: the io_id of a sibling of a logical I/O is never 0, and every sibling
\* carries the io_id of its primary: 1..queue_depth at first, then the value
\* each reissue computes from the primary's and assigns to every sibling.
C24_SiblingsShareNonZeroId ==
    Running =>
        \A t \in TaskIds :
            (task[t].st = "live" /\ task[task[t].main].st = "live") =>
                /\ task[t].io_id # 0
                /\ task[t].io_id = task[task[t].main].io_id

\* C25: every NVMe submission on a context uses the queue pair of index
\* last_qpair and moves last_qpair to (last_qpair + 1) mod num_active_qpairs;
\* the index is in [0, num_active_qpairs), successive submissions cycle
\* through the active queue pairs and no unused queue pair carries I/O.
C25_Step ==
    \A c \in Ctxs :
        qp'.nsub[c] # qp.nsub[c] =>
            /\ qp'.qp_num[c] = qp.last_qpair[c]
            /\ qp'.last_qpair[c] = (qp.last_qpair[c] + 1) % qp.num_active_qpairs[c]
            /\ qp'.qp_num[c] \in 0..(qp.num_active_qpairs[c] - 1)
            /\ (qp.nsub[c] > 0 =>
                   qp'.qp_num[c] = (qp.qp_num[c] + 1) % qp.num_active_qpairs[c])
            /\ qp'.carried[c] \subseteq 0..(qp.num_active_qpairs[c] - 1)
C25_RoundRobin == [][C25_Step]_vars

\* a context with several active and one unused queue pair has gone round
\* all its active queue pairs and started again
C25_Witness ==
    \E c \in Ctxs :
        /\ qp.num_active_qpairs[c] >= 2
        /\ qp.num_all_qpairs[c] > qp.num_active_qpairs[c]
        /\ qp.nsub[c] > qp.num_active_qpairs[c]
        /\ qp.carried[c] = 0..(qp.num_active_qpairs[c] - 1)

\* C26: every worker calls pthread_barrier_wait exactly once, whether its
\* init_ns_worker_ctx calls succeeded or one failed; a worker whose init
\* failed sets the status of that context to 1 and returns 1 without
\* submitting; no worker stays blocked at the barrier forever.
C26_Safe ==
    \A w \in Launched :
        /\ br.arrivals[w] <= 1
        /\ (br.wpc[w] \in {"blocked", "passed", "running", "returned"} => br.arrivals[w] = 1)
        /\ (br.bad[w] # 0 => ~br.submitted[w])
        /\ (br.wpc[w] = "returned" /\ br.bad[w] # 0 =>
               br.ret[w] = 1 /\ br.status[w][br.bad[w]] = 1)
C26_BarrierOnce ==
    /\ []C26_Safe
    /\ \A w \in Workers : (br.wpc[w] = "blocked") ~> (br.wpc[w] # "blocked")
    /\ \A w \in Workers : (br.wpc[w] = "init") ~> (br.wpc[w] = "returned")

\* one worker failed its init, returned 1 and submitted nothing, while the
\* other passed the barrier and ran
C26_Witness ==
    /\ br.n = MaxWorkers
    /\ \E w \in Launched : \E v \in Launched :
          /\ br.bad[w] # 0 /\ br.wpc[w] = "returned" /\ ~br.submitted[w]
          /\ br.bad[v] = 0 /\ br.submitted[v]

RECURSIVE ListSeq(_, _, _)
ListSeq(tk, t, fuel) ==
    IF t = NULL \/ fuel = 0 THEN << >> ELSE <<t>> \o ListSeq(tk, tk[t].next, fuel - 1)
SeqRange(q) == { q[i] : i \in DOMAIN q }
SeqIndex(q, t) == CHOOSE i \in DOMAIN q : q[i] = t
\* the step of work_fn that ran the retry of queued_tasks for context cur'
RetryStep ==
    /\ pc' = "poll"
    /\ pc = "loop_top" \/ (pc = "poll" /\ cur' = cur + 1)

\* C28: with continue_on_error set and the context not draining, the retry of
\* one main-loop iteration takes every sibling that was on queued_tasks exactly
\* once: afterwards the sibling is either submitted once (or queued again by the
\* failed retry) or put back; none is lost, none is duplicated (twice on the
\* queue, on the queue and at the transport, or twice at the transport), and
\* the siblings on queued_tasks keep their relative order.
C28_Step ==
    LET c == cur'
        Q == ListSeq(task, ctx[c].qfirst, WalkFuel)
        Q2 == ListSeq(task', ctx'[c].qfirst, WalkFuel)
    IN  (RetryStep /\ cfg.coe /\ ~ctx[c].draining) =>
            /\ \A t \in SeqRange(Q) :
                  \/ inflight'[t] = 1 /\ t \notin SeqRange(Q2)
                  \/ inflight'[t] = 0 /\ t \in SeqRange(Q2)
            /\ SeqRange(Q2) \subseteq SeqRange(Q)
            /\ \A i \in DOMAIN Q2 : \A j \in DOMAIN Q2 :
                  i < j => Q2[i] # Q2[j] /\ SeqIndex(Q, Q2[i]) < SeqIndex(Q, Q2[j])
C28_RetryTakesEachOnce == [][C28_Step]_vars

\* C29: cleanup_ns_worker_ctx removes every sibling from the context's
\* queued_tasks and calls task_complete on each exactly once; every context of
\* the worker is draining by then, so none of the calls submits a sibling or
\* pushes a primary on the pending list, and queued_tasks is empty when the
\* transport's cleanup is called.
C29_Step ==
    LET Q == ListSeq(task, ctx[cur].qfirst, WalkFuel)
    IN  pc = "cleanup" =>
            /\ \A c \in Ctxs : ctx[c].draining
            /\ \A i \in DOMAIN Q : \A j \in DOMAIN Q : i # j => Q[i] # Q[j]
            /\ \A t \in SeqRange(Q) : task[t].st = "live" /\ task[t].ctx = cur
            /\ pc' \in {"cleanup", "done"}
            /\ ctx'[cur].qfirst = NULL
            /\ ctx'[cur].comp = ctx[cur].comp + Len(Q)
            /\ inflight' = inflight
            /\ pending' = pending
            /\ \A c \in Ctxs : ctx'[c].sub = ctx[c].sub
C29_CleanupEmptiesQueue == [][C29_Step]_vars

\* C30: rep_task_release frees every sibling of the logical I/O and every
\* sibling's iovec array exactly once, the primary last, and never reads a
\* sibling (its list link included) after it freed that sibling, for both
\* sibling-list orders. Stated for runs without injected faults of a worker
\* with as many contexts as g_rep_num, where the sibling lists are intact.
C30_ReleaseTouchesNoFreed ==
    (Running /\ Matched /\ nfail = 0) =>
        /\ ~hist.linkAfterFree
        /\ \A k \in Lios :
              LioReleased(k) =>
                  /\ payload[k].frees = 1
                  /\ \A t \in SiblingsOf(k) :
                        task[t].st # "none" =>
                            task[t].st = "freed" /\ task[t].iovs = "freed"

\* what the program holds of a handler state: no history, no call counters
ProgState(S) ==
    [ task |-> S.task, ctx |-> S.ctx, swap |-> S.swap, inflight |-> S.inflight,
      pending |-> S.pending, batch |-> S.batch, submit_batch |-> S.submit_batch,
      payload |-> S.payload, stopped |-> Stopped(S) \/ S.ub ]
\* the transport hands the completion of sibling t to io_complete; O decides
\* the submit_io calls of a reissue
ArriveWith(S, t, kind, O) == io_complete([S EXCEPT !.inflight[t] = @ - 1], t, kind, O)
Arrive(S, t, kind) == ArriveWith(S, t, kind, Calm)
\* the arrival orders of the completions of one emission
ArrivalOrders ==
    { o \in [Ctxs -> Ctxs] : \A i \in Ctxs : \A j \in Ctxs : i # j => o[i] # o[j] }
\* the completions of logical I/O k arrive in the order o, from the i-th on
RECURSIVE ArriveFrom(_, _, _, _, _)
ArriveFrom(S, k, o, kinds, i) ==
    IF i > cfg.nctx THEN S
    ELSE ArriveFrom(Arrive(S, Tid(k, o[i]), kinds[o[i]]), k, o, kinds, i + 1)
\* every sibling of logical I/O k is at its transport, none has completed
EmissionOut(k) ==
    /\ \A j \in Ctxs : task[Tid(k, j)].st = "live" /\ inflight[Tid(k, j)] = 1
    /\ task[Primary(k)].rcn = 0
\* the completion of t changed nothing but t's own context, inflight[t] and
\* the primary's rep_completed_num
OwnCountersOnly(S, T, t) ==
    /\ \A c \in Ctxs : c # S.task[t].ctx => T.ctx[c] = S.ctx[c]
    /\ T.ctx[S.task[t].ctx].sub = S.ctx[S.task[t].ctx].sub
    /\ \A u \in TaskIds : u # S.task[t].main => T.task[u] = S.task[u]
    /\ T.task[S.task[t].main] = [S.task[S.task[t].main] EXCEPT !.rcn = @ + 1]
    /\ \A u \in TaskIds : u # t => T.inflight[u] = S.inflight[u]
    /\ T.pending = S.pending /\ T.batch = S.batch /\ T.payload = S.payload
    /\ T.swap = S.swap /\ ~Stopped(T) /\ ~T.ub

\* C31: the completions of the siblings of one emission may arrive in any
\* order: a completion that is not the last of them changes only its own
\* context's counters and the primary's rep_completed_num (no submission, no
\* release, no io_id change), and the state after all of them is the same for
\* every arrival order.
C31_AnyArrivalOrder ==
    (pc \in {"poll", "drain_poll"}) =>
        \A k \in Lios :
            EmissionOut(k) =>
                \A kinds \in [Ctxs -> (IF nfail < MaxFail THEN CplKinds ELSE {"ok"})] :
                    /\ \A o \in ArrivalOrders :
                          cfg.nctx > 1 =>
                              OwnCountersOnly(Bundle, Arrive(Bundle, Tid(k, o[1]), kinds[o[1]]),
                                              Tid(k, o[1]))
                    /\ \A o1 \in ArrivalOrders : \A o2 \in ArrivalOrders :
                          ProgState(ArriveFrom(Bundle, k, o1, kinds, 1))
                              = ProgState(ArriveFrom(Bundle, k, o2, kinds, 1))

\* the run time the loop is in has certainly expired when the deadline test
\* (the step that counts the iteration) is reached
DeadlineReached == pc = "loop_end" /\ ~all_draining /\ iters + 1 >= MaxIters
\* the warm-up-to-measurement transition
WarmupTransition ==
    /\ warmup /\ ~warmup'
    /\ pc = "loop_end" /\ pc' = "loop_top"
    /\ \A c \in Ctxs : /\ ctx'[c].sub = 0 /\ ctx'[c].comp = 0
                        /\ ctx'[c] = [ctx[c] EXCEPT !.sub = 0, !.comp = 0]
    /\ inflight' = inflight /\ task' = task /\ pending' = pending /\ swap' = swap

\* C32: with a warm-up time the worker makes the warm-up-to-measurement
\* transition once: at the first deadline it zeroes the statistics of all its
\* contexts and goes on with the real deadline, its in-flight I/Os untouched;
\* at the second deadline it leaves the main loop. Without warm-up it leaves at
\* the first deadline.
C32_Step ==
    /\ (pc # "start" /\ warmup' # warmup) => WarmupTransition
    /\ (pc # "start" /\ ~warmup) => ~warmup'
    /\ (pc = "start" /\ pc' = "loop_top") => warmup' = cfg.warmup_time
    /\ (pc = "loop_end" /\ pc' = "drain" /\ ~all_draining) => ~warmup
    /\ (DeadlineReached /\ iters' # iters /\ warmup) => WarmupTransition
    /\ (DeadlineReached /\ iters' # iters /\ ~warmup) => pc' = "drain"
C32_WarmupOnce == [][C32_Step]_vars

\* the worker left the main loop at the second deadline, after a transition
\* that zeroed statistics of submitted I/O while I/O was in flight
C32_Witness ==
    /\ cfg.warmup_time /\ ~warmup /\ pc = "drain" /\ ~g_exit /\ ~all_draining
    /\ \E c \in Ctxs : hist.resetDepth[c] > 0

\* the completion statuses spdk_nvme_cpl_is_error() reports as errors
ErrorKinds == CplKinds \ {"ok"}
\* the siblings whose completion check_io of the polled context can deliver
Deliverable == { t \in TaskIds : inflight[t] > 0 /\ task[t].ctx = cur }
\* the error could arrive now: the context is polled, the fault is available
ErrorMayArrive == pc \in {"poll", "drain_poll"} /\ nfail < MaxFail /\ reaped < MaxReap

\* C33 as stated: an error completion on a sibling changes is_draining and
\* status of that sibling's own context only; with continue_on_error it changes
\* is_draining and status of no context (stated for workers with as many
\* contexts as g_rep_num).
C33_ErrorTouchesOwnContextOnly ==
    (ErrorMayArrive /\ Matched) =>
        \A t \in Deliverable : \A kind \in ErrorKinds :
            LET T == Arrive(Bundle, t, kind)
            IN  \A c \in Ctxs :
                    (c # cur \/ cfg.coe) =>
                        /\ T.ctx[c].draining = ctx[c].draining
                        /\ T.ctx[c].status = ctx[c].status

\* the submit_io calls of the reissue an N-th completion triggers fail as f says
ReissueOracles == { [Calm EXCEPT !.fail = f] : f \in SUBSET (1..cfg.nctx) }
\* the handler freed a sibling of context c after its submit_io failed
SubmitFailedOn(T, c) ==
    \E u \in TaskIds : task[u].ctx = c /\ task[u].st = "live" /\ T.task[u].st = "freed"

\* C33 (amended): the error branch of io_complete touches the sibling's own
\* context only: without continue_on_error its status becomes 1 and, for an
\* invalid-namespace status, its is_draining becomes true. In the same callback
\* is_draining of a context changes otherwise only when the reissue triggered by
\* the completion finds that context's io_submitted at g_number_ios, and status
\* of another context only when a submit_io of that reissue fails without
\* continue_on_error; with continue_on_error no status changes.
C33_ErrorEffects ==
    ErrorMayArrive =>
        \A t \in Deliverable : \A kind \in ErrorKinds : \A O \in ReissueOracles :
            LET T == ArriveWith(Bundle, t, kind, O)
            IN  /\ ~cfg.coe =>
                      /\ T.ctx[cur].status = 1
                      /\ (kind = "invalid_ns" => T.ctx[cur].draining)
                /\ \A c \in Ctxs :
                      /\ T.ctx[c].draining # ctx[c].draining =>
                            /\ T.ctx[c].draining
                            /\ \/ c = cur /\ ~cfg.coe /\ kind = "invalid_ns"
                               \/ /\ cfg.number_ios # 0
                                  /\ T.ctx[c].sub >= cfg.number_ios
                      /\ T.ctx[c].status # ctx[c].status =>
                            /\ T.ctx[c].status = 1 /\ ~cfg.coe
                            /\ c = cur \/ SubmitFailedOn(T, c)

\* an error completion on the second context set only that context's status,
\* and the reissue it triggered made the first context draining by the budget
C33_Witness ==
    /\ Matched /\ cfg.nctx = 2 /\ ~cfg.coe /\ cfg.number_ios = 2
    /\ hist.errored[2] /\ ~hist.errored[1] /\ ~hist.removed[2]
    /\ ctx[2].status = 1 /\ ctx[1].status = 0
    /\ ctx[1].draining /\ ctx[1].sub = cfg.number_ios

\* C34: at any time two distinct live logical I/Os of a worker carry different
\* io_ids, also after the id has wrapped around and 0 has been replaced by 1
C34_IoIdsDistinct ==
    \A k1, k2 \in 1..MaxIdQD :
        (k1 # k2 /\ iw.live[k1] /\ iw.live[k2]) => iw.io_id[k1] # iw.io_id[k2]

\* the lines the claim describes for one namespace of a snapshot: six rows in
\* the order of LogStages, each with its own stage's total, io_num and average,
\* then a blank line
GroupOf(L) ==
    [j \in 1..7 |->
        IF j = 7 THEN [kind |-> "blank"]
        ELSE [ kind |-> "row", name |-> LogStages[j], latency |-> L[j].latency_time,
               io_num |-> L[j].io_num,
               average_latency |-> timespec_divide(L[j].latency_time, L[j].io_num) ]]
RECURSIVE GroupsOf(_, _, _)
GroupsOf(snaps, k, i) ==
    IF k > Len(snaps) THEN << >>
    ELSE IF i > Len(snaps[k]) THEN GroupsOf(snaps, k + 1, 1)
    ELSE GroupOf(snaps[k][i]) \o GroupsOf(snaps, k, i + 1)
\* a line of the file without the id and ns_id columns
Shown(line) ==
    IF line.kind # "row" THEN line
    ELSE [ kind |-> "row", name |-> line.name, latency |-> line.latency, io_num |-> line.io_num,
           average_latency |-> line.average_latency ]
\* the lines of the file after the title
Body == [j \in 1..(Len(cw.file) - 1) |-> Shown(cw.file[j + 1])]

\* C35: for each posted snapshot the file holds, per namespace, six rows in the
\* order task_queue, task_complete, req_send, req_complete, wr_send, wr_complete,
\* each with the total latency, the io_num and the average of that same stage's
\* accumulator, and a blank line after each namespace's six rows
C35_RowsOfOwnStage ==
    (cw.cpc = "recv" /\ Len(cw.snaps) > 0) => Body = GroupsOf(cw.snaps, 1, 1)

\* C36: the pending list is a FIFO without loss or duplication: no primary is
\* pushed while it is still waiting, every pop returns the primary pushed
\* first, the list holds exactly the primaries pushed and not yet popped, in
\* the order of the pushes, and after every push and pop the tail pointer is
\* the last node (the sentinel head when the list is empty)
C36_PendingIsFifo ==
    /\ ~hist.pushedTwice /\ ~hist.outOfOrder /\ ~hist.tailOff
    /\ pending = hist.waiting
    /\ hist.tail = Len(pending)

\* C37: every sibling is submitted at an offset inside the namespace it targets:
\* the offset handed to submit_io is below size_in_ios of the sibling's own
\* namespace, whatever the workload and the capacities
C37_OffsetInsideNamespace == ~hist.offOutside

\* C38: is_draining and a non-zero status of a context are sticky: no step of
\* the worker sets is_draining back to false or status back to 0, the warm-up
\* reset of the statistics included
C38_Step ==
    \A c \in Ctxs :
        /\ ctx[c].draining => ctx'[c].draining
        /\ ctx[c].status # 0 => ctx'[c].status # 0
C38_FlagsSticky == [][C38_Step]_vars

\* the warm-up reset met a draining context with status 1, and afterwards the
\* context is still draining with status 1 and zeroed statistics behind it
C38_Witness ==
    /\ cfg.warmup_time /\ ~warmup /\ hist.resetFlagged
    /\ \E c \in Ctxs : ctx[c].draining /\ ctx[c].status = 1

====
